---- MODULE Spec2Model ----
(***************************************************************************)
(* Model of the httpmockserver expectation engine: the three ordered       *)
(* expectation sequences of mockServer, the request handler ServeHTTP,     *)
(* the declaration API (EVERY / EXPECT / DEFAULT and the builder calls),   *)
(* AssertExpectations and Shutdown.                                        *)
(*                                                                         *)
(* A nil pointer / nil slice is modelled as the empty sequence <<>> and a  *)
(* non-nil one as a one-element sequence, so nil and "empty" stay          *)
(* distinct.  The reporting collaborator T is modelled by the calls it     *)
(* receives: every operation records how many Fatal/Fatalf and Errorf      *)
(* calls it made in the variable last.                                     *)
(***************************************************************************)
EXTENDS Integers, Sequences, FiniteSets, TLC

VARIABLES every, expectations, defaults, finisheCalled, serverClosed,
          served, errorfCalls, everyFailPairs, specHits, timesCalled,
          written, inflight, verdict, last

vars == <<every, expectations, defaults, finisheCalled, serverClosed,
          served, errorfCalls, everyFailPairs, specHits, timesCalled,
          written, inflight, verdict, last>>

----------------------------------------------------------------------------
(* Bounds of the model *)

(* expectations registered in the three sequences together *)
MaxRegistered == 2

(* validators appended in the whole registry *)
MaxValidations == 2

(* requests processed *)
MaxRequests == 2

(* expectations registered in the specification of the call-count bounds *)
MaxBoundsRegistered == 1

(* requests the http server delivers concurrently, each on its goroutine *)
MaxConcurrent == 2

----------------------------------------------------------------------------
(* Inputs *)

Methods == {"GET", "POST"}

Paths == {"/test", "/abc"}

(* argument of Path(...) in the declarations *)
DeclaredPaths == {"/test"}

Requests == [method : Methods, path : Paths]

Codes == {200, 201}

TimesArgs == {2}

MaxInt32 == 2147483647

(* the pointers EVERY(), EXPECT() and DEFAULT() can return: the sequence  *)
(* the expectation was appended to and its position there                  *)
HandleIds == {"every", "expectations", "defaults"} \X (1..MaxRegistered)

(* keys and values of the response headers, and response bodies: nil, the  *)
(* empty slice and a slice with content                                    *)
HeaderKeys == {"Content-Type", "X-Test"}

HeaderValues == {"text/plain", "application/json"}

Bodies == {<<>>, <<"">>, <<"Hello World!">>}

(* the objects given to JsonBody(...): nil, a map, a string and a value    *)
(* encoding/json cannot encode (a channel)                                 *)
JsonObjects == {"nil", "map", "string", "chan"}

(* the maps given to Headers(...): a key is absent (<<>>) or has a value *)
HeaderMaps == [HeaderKeys -> {<<>>} \cup {<<v>> : v \in HeaderValues}]

(* arguments of Times, MinTimes and MaxTimes in the specification of the   *)
(* call-count bounds                                                       *)
BoundsArgs == {-1, 0, 1, 3}

----------------------------------------------------------------------------
(* Request validators *)

ToLower(s) ==
    CASE s = "GET" -> "get"
      [] s = "POST" -> "post"
      [] OTHER -> s

(* "Path: " + path, on the paths of the model *)
Concat(prefix, path) ==
    CASE prefix = "Path: " /\ path = "/test" -> "Path: /test"
      [] prefix = "Path: " /\ path = "/abc" -> "Path: /abc"

methodValidation(method, in) == ToLower(in.method) = ToLower(method)

pathValidation(path, in) == in.path = path

(* requestValidation.validation(in) == nil *)
validation(val, in) ==
    CASE val.kind = "method" -> methodValidation(val.arg, in)
      [] val.kind = "path" -> pathValidation(val.arg, in)

requestValidation(kind, arg, description) ==
    [kind |-> kind, arg |-> arg, description |-> description,
     satisfied |-> FALSE]

(* appendValidation putting the new validator in front of the list *)
appendValidationInFront(exp, val) ==
    [exp EXCEPT !.requestValidations = <<val>> \o @]

appendValidation(exp, val) ==
    [exp EXCEPT !.requestValidations = Append(@, val)]

----------------------------------------------------------------------------
(* Expectations *)

requestExpectation(count, min, max, isEvery, isDefault) ==
    [count |-> count, min |-> min, max |-> max,
     requestValidations |-> <<>>, response |-> <<>>,
     every |-> isEvery, defaultExp |-> isDefault]

(* a map[string]string: a key is absent (<<>>) or has a value (<<v>>) *)
EmptyMap == [k \in HeaderKeys |-> <<>>]

(* &MockResponse{Code: code, Headers: make(map[string]string)} *)
MockResponse(code) == [Code |-> code, Headers |-> EmptyMap, Body |-> <<>>]

(* responseExpectation: the builder calls on the MockResponse resp *)

RespHeader(resp, key, value) == [resp EXCEPT !.Headers[key] = <<value>>]

RespContentType(resp, contentType) ==
    [resp EXCEPT !.Headers["Content-Type"] = <<contentType>>]

RespHeaders(resp, headers) ==
    [resp EXCEPT !.Headers = [k \in HeaderKeys |->
                                IF headers[k] # <<>> THEN headers[k] ELSE @[k]]]

RespBody(resp, data) == [resp EXCEPT !.Body = data]

(* []byte(body) is never nil *)
RespStringBody(resp, body) == RespBody(resp, <<body>>)

(* json.Marshal(object) on JsonObjects: the encoding, or an error and no   *)
(* bytes                                                                   *)
Marshal(object) ==
    CASE object = "nil" -> [err |-> FALSE, data |-> <<"null">>]
      [] object = "map" -> [err |-> FALSE, data |-> <<"{\"hello\":\"world\"}">>]
      [] object = "string" -> [err |-> FALSE, data |-> <<"\"hello\"">>]
      [] object = "chan" -> [err |-> TRUE, data |-> <<>>]

(* JsonBody setting the Content-Type whether or not one is set already *)
RespJsonBodyOverwrites(resp, object) ==
    LET typed == [resp EXCEPT !.Headers["Content-Type"] = <<"application/json">>]
    IN IF object = "nil" THEN RespBody(typed, <<>>)
       ELSE RespBody(typed, Marshal(object).data)

(* JsonBody: Content-Type becomes application/json unless one is set; a    *)
(* nil object gives a nil body; a failed encoding is reported with Fatalf  *)
(* and the body becomes the nil slice json.Marshal returned                *)
RespJsonBody(resp, object) ==
    LET typed == IF resp.Headers["Content-Type"] = <<>>
                 THEN [resp EXCEPT
                         !.Headers["Content-Type"] = <<"application/json">>]
                 ELSE resp
    IN IF object = "nil" THEN RespBody(typed, <<>>)
       ELSE RespBody(typed, Marshal(object).data)

Times(exp, n) == [exp EXCEPT !.min = n, !.max = n]

(* MinTimes assigning min only when it raises it *)
MinTimesRaiseOnly(exp, n) ==
    LET a == [exp EXCEPT !.min = IF n > @ THEN n ELSE @]
        b == IF a.max = 1 THEN [a EXCEPT !.max = MaxInt32] ELSE a
    IN IF b.max < b.min THEN [b EXCEPT !.max = b.min] ELSE b

(* MinTimes without the test for max == 1 *)
MinTimesKeepsMax(exp, n) ==
    LET a == [exp EXCEPT !.min = n]
    IN IF a.max < a.min THEN [a EXCEPT !.max = a.min] ELSE a

MinTimes(exp, n) ==
    LET a == [exp EXCEPT !.min = n]
        b == IF a.max = 1 THEN [a EXCEPT !.max = MaxInt32] ELSE a
    IN IF b.max < b.min THEN [b EXCEPT !.max = b.min] ELSE b

(* MaxTimes without lowering min *)
MaxTimesNoLower(exp, n) == [exp EXCEPT !.max = n]

MaxTimes(exp, n) ==
    LET a == [exp EXCEPT !.max = n]
    IN IF a.min > a.max THEN [a EXCEPT !.min = a.max] ELSE a

AnyTimes(exp) == [exp EXCEPT !.min = 0, !.max = MaxInt32]

Once(exp) == Times(exp, 1)

Twice(exp) == Times(exp, 2)

AtMostOnce(exp) == [exp EXCEPT !.min = 0, !.max = 1]

AtLeastOnce(exp) == [exp EXCEPT !.min = 1, !.max = MaxInt32]

----------------------------------------------------------------------------
(* The outcome of the last operation, as seen by T and by the client *)

NoLast ==
    [op |-> "none", h |-> <<>>, arg |-> 0,
     req |-> <<>>, before |-> <<>>, matched |-> <<>>,
     fatalf |-> 0, fatalMsg |-> "", fatalArgs |-> <<>>, report |-> <<>>,
     errorf |-> 0,
     w |-> <<>>, sansEvery |-> <<>>, result |-> <<>>]

(* The goroutines on which the http server calls ServeHTTP *)
Procs == 1..MaxConcurrent

(* A goroutine before its request has arrived.  pc is the position in      *)
(* ServeHTTP; i and j are the indexes of the loops outerExp; matched is    *)
(* matchedExpectation; tmp holds the count read by count++; arrivedAfter   *)
(* is the set of goroutines that had finished when the request arrived.    *)
Idle ==
    [pc |-> "idle", in |-> <<>>, i |-> 0, j |-> 0, matched |-> <<>>,
     tmp |-> 0, errorf |-> 0, fatalf |-> 0, fatalMsg |-> "", w |-> <<>>,
     arrivedAfter |-> {}]

(* the caller of Shutdown() as holder of handlerMutex *)
Teardown == MaxConcurrent + 1

(* handlerMutex (0 when unlocked, else the goroutine holding it), the      *)
(* goroutines, s.expectations as it was when the first request arrived,    *)
(* and the position of the test goroutine in Shutdown()                    *)
NoInflight ==
    [mutex |-> 0, proc |-> [p \in Procs |-> Idle], base |-> <<>>,
     teardown |-> "idle"]

Init ==
    /\ every = <<>>
    /\ expectations = <<>>
    /\ defaults = <<>>
    /\ finisheCalled = FALSE
    /\ serverClosed = FALSE
    /\ served = 0
    /\ errorfCalls = 0
    /\ everyFailPairs = 0
    /\ specHits = <<>>
    /\ timesCalled = {}
    /\ written = [h \in HandleIds |-> <<>>]
    /\ inflight = NoInflight
    /\ verdict = "none"
    /\ last = NoLast

----------------------------------------------------------------------------
(* ServeHTTP: the request handler, one request at a time under             *)
(* handlerMutex                                                            *)

(* everyValidations with a break after the first failing validator *)
RECURSIVE everyValidationsBreak(_, _, _)
everyValidationsBreak(vals, j, in) ==
    IF j > Len(vals) THEN 0
    ELSE IF ~validation(vals[j], in) THEN 1
    ELSE everyValidationsBreak(vals, j + 1, in)

(* inner loop of "check EVERY expectation": one Errorf per failing         *)
(* validator, no break                                                     *)
RECURSIVE everyValidations(_, _, _)
everyValidations(vals, j, in) ==
    IF j > Len(vals) THEN 0
    ELSE (IF validation(vals[j], in) THEN 0 ELSE 1)
         + everyValidations(vals, j + 1, in)

(* outer loop of "check EVERY expectation": the number of Errorf calls *)
RECURSIVE checkEvery(_, _, _)
checkEvery(ev, i, in) ==
    IF i > Len(ev) THEN 0
    ELSE everyValidations(ev[i].requestValidations, 1, in)
         + checkEvery(ev, i + 1, in)

(* inner loop of outerExp marking the validators only when all of them     *)
(* pass                                                                    *)
expValidationsAllOrNothing(vals, j, in) ==
    IF \A k \in j..Len(vals) : validation(vals[k], in)
    THEN [ok |-> TRUE,
          vals |-> [k \in 1..Len(vals) |->
                      IF k >= j THEN [vals[k] EXCEPT !.satisfied = TRUE]
                      ELSE vals[k]]]
    ELSE [ok |-> FALSE, vals |-> vals]

(* inner loop of outerExp: validators in declared order, each passing one  *)
(* is marked satisfied at once, the first failing one abandons the         *)
(* expectation (continue outerExp)                                         *)
RECURSIVE expValidations(_, _, _)
expValidations(vals, j, in) ==
    IF j > Len(vals) THEN [ok |-> TRUE, vals |-> vals]
    ELSE IF ~validation(vals[j], in) THEN [ok |-> FALSE, vals |-> vals]
    ELSE expValidations([vals EXCEPT ![j].satisfied = TRUE], j + 1, in)

(* outerExp without the break: the scan goes on after a match, so the      *)
(* last matching expectation is the result                                 *)
RECURSIVE outerExpLastMatch(_, _, _)
outerExpLastMatch(exps, i, in) ==
    IF i > Len(exps) THEN [matched |-> 0, exps |-> exps]
    ELSE LET res == expValidations(exps[i].requestValidations, 1, in)
             marked == [exps EXCEPT ![i].requestValidations = res.vals]
             rest == outerExpLastMatch(
                        IF res.ok THEN [marked EXCEPT ![i].count = @ + 1]
                        ELSE marked, i + 1, in)
         IN IF res.ok /\ rest.matched = 0
            THEN [matched |-> i, exps |-> rest.exps]
            ELSE rest

(* outerExp counting an expectation as soon as it is tried *)
RECURSIVE outerExpCountsTried(_, _, _)
outerExpCountsTried(exps, i, in) ==
    IF i > Len(exps) THEN [matched |-> 0, exps |-> exps]
    ELSE LET res == expValidations(exps[i].requestValidations, 1, in)
             marked == [exps EXCEPT ![i].requestValidations = res.vals,
                                    ![i].count = @ + 1]
         IN IF res.ok THEN [matched |-> i, exps |-> marked]
            ELSE outerExpCountsTried(marked, i + 1, in)

(* outerExp passing over an expectation whose count has reached max *)
RECURSIVE outerExpSkipsExhausted(_, _, _)
outerExpSkipsExhausted(exps, i, in) ==
    IF i > Len(exps) THEN [matched |-> 0, exps |-> exps]
    ELSE IF exps[i].count >= exps[i].max
    THEN outerExpSkipsExhausted(exps, i + 1, in)
    ELSE LET res == expValidations(exps[i].requestValidations, 1, in)
             marked == [exps EXCEPT ![i].requestValidations = res.vals]
         IN IF res.ok
            THEN [matched |-> i,
                  exps |-> [marked EXCEPT ![i].count = @ + 1]]
            ELSE outerExpSkipsExhausted(marked, i + 1, in)

(* loop outerExp over s.expectations: the first expectation whose          *)
(* validators all pass is the match and its count is incremented           *)
RECURSIVE outerExp(_, _, _)
outerExp(exps, i, in) ==
    IF i > Len(exps) THEN [matched |-> 0, exps |-> exps]
    ELSE LET res == expValidations(exps[i].requestValidations, 1, in)
             marked == [exps EXCEPT ![i].requestValidations = res.vals]
         IN IF res.ok
            THEN [matched |-> i,
                  exps |-> [marked EXCEPT ![i].count = @ + 1]]
            ELSE outerExp(marked, i + 1, in)

(* inner loop of outerDefaults: no flag is set *)
RECURSIVE defaultValidations(_, _, _)
defaultValidations(vals, j, in) ==
    IF j > Len(vals) THEN TRUE
    ELSE IF ~validation(vals[j], in) THEN FALSE
    ELSE defaultValidations(vals, j + 1, in)

(* outerDefaults without the break: the last matching default wins *)
RECURSIVE outerDefaultsLastMatch(_, _, _)
outerDefaultsLastMatch(defs, i, in) ==
    IF i > Len(defs) THEN 0
    ELSE LET rest == outerDefaultsLastMatch(defs, i + 1, in)
         IN IF rest # 0 THEN rest
            ELSE IF defaultValidations(defs[i].requestValidations, 1, in)
            THEN i
            ELSE 0

(* outerDefaults falling back to the first default when none matches *)
RECURSIVE outerDefaultsFallback(_, _, _)
outerDefaultsFallback(defs, i, in) ==
    IF i > Len(defs) THEN (IF Len(defs) > 0 THEN 1 ELSE 0)
    ELSE IF defaultValidations(defs[i].requestValidations, 1, in) THEN i
    ELSE outerDefaultsFallback(defs, i + 1, in)

(* loop outerDefaults over s.defaults: index of the first match, 0 if none *)
RECURSIVE outerDefaults(_, _, _)
outerDefaults(defs, i, in) ==
    IF i > Len(defs) THEN 0
    ELSE IF defaultValidations(defs[i].requestValidations, 1, in) THEN i
    ELSE outerDefaults(defs, i + 1, in)

(* One call on the http.ResponseWriter.  "Header" stands for the loop of   *)
(* w.Header().Set(key, value) calls and holds the header map they leave.   *)
WriterCall(call, header, code, data) ==
    [call |-> call, Header |-> header, Code |-> code, Data |-> data]

(* "build response" writing the status line before the headers *)
buildResponseStatusFirst(response) ==
    <<WriterCall("WriteHeader", EmptyMap, response.Code, ""),
      WriterCall("Header", response.Headers, 0, "")>>
    \o (IF response.Body # <<>>
        THEN <<WriterCall("Write", EmptyMap, 0, response.Body[1])>>
        ELSE <<>>)

(* "build response": the headers, then the status line, then the body      *)
(* unless it is nil                                                        *)
buildResponse(response) ==
    <<WriterCall("Header", response.Headers, 0, ""),
      WriterCall("WriteHeader", EmptyMap, response.Code, "")>>
    \o (IF response.Body # <<>>
        THEN <<WriterCall("Write", EmptyMap, 0, response.Body[1])>>
        ELSE <<>>)

(* matchAndRespond without the test for a missing response: the handler   *)
(* goes on and writes an empty 200 response                                *)
matchAndRespondNoResponseTest(exps, defs, in, errs) ==
    LET scan == outerExp(exps, 1, in)
        dflt == IF scan.matched = 0 THEN outerDefaults(defs, 1, in) ELSE 0
        matched == IF scan.matched # 0 THEN <<"expectations", scan.matched>>
                   ELSE IF dflt # 0 THEN <<"defaults", dflt>>
                   ELSE <<>>
        matchedExpectation == IF scan.matched # 0 THEN scan.exps[scan.matched]
                              ELSE defs[dflt]
    IN IF matched = <<>>
       THEN [exps |-> scan.exps, matched |-> matched, errorf |-> errs,
             fatalf |-> 1, fatalMsg |-> "Unexpected call",
             fatalArgs |-> <<in>>, w |-> <<>>]
       ELSE [exps |-> scan.exps, matched |-> matched, errorf |-> errs,
             fatalf |-> 0, fatalMsg |-> "", fatalArgs |-> <<>>,
             w |-> IF matchedExpectation.response = <<>>
                   THEN buildResponse(MockResponse(200))
                   ELSE buildResponse(matchedExpectation.response[1])]

(* the handler undoing the count and the flags of a request whose          *)
(* expectation has no response                                             *)
matchAndRespondRollsBack(exps, defs, in, errs) ==
    LET scan == outerExp(exps, 1, in)
        dflt == IF scan.matched = 0 THEN outerDefaults(defs, 1, in) ELSE 0
        matched == IF scan.matched # 0 THEN <<"expectations", scan.matched>>
                   ELSE IF dflt # 0 THEN <<"defaults", dflt>>
                   ELSE <<>>
        matchedExpectation == IF scan.matched # 0 THEN scan.exps[scan.matched]
                              ELSE defs[dflt]
    IN IF matched = <<>>
       THEN [exps |-> scan.exps, matched |-> matched, errorf |-> errs,
             fatalf |-> 1, fatalMsg |-> "Unexpected call",
             fatalArgs |-> <<in>>, w |-> <<>>]
       ELSE IF matchedExpectation.response = <<>>
       THEN [exps |-> exps, matched |-> matched, errorf |-> errs,
             fatalf |-> 1,
             fatalMsg |-> "Response not defined for expectation",
             fatalArgs |-> [j \in 1..Len(matchedExpectation.requestValidations)
                              |-> matchedExpectation.requestValidations[j]
                                                    .description],
             w |-> <<>>]
       ELSE [exps |-> scan.exps, matched |-> matched, errorf |-> errs,
             fatalf |-> 0, fatalMsg |-> "", fatalArgs |-> <<>>,
             w |-> buildResponse(matchedExpectation.response[1])]

(* The handler after the EVERY check: match the request against           *)
(* s.expectations, then against s.defaults, report an unexpected call or a *)
(* missing response with Fatalf and return, else build the response.       *)
(* errs is the number of Errorf calls the EVERY check made.                *)
matchAndRespond(exps, defs, in, errs) ==
    LET scan == outerExp(exps, 1, in)
        dflt == IF scan.matched = 0 THEN outerDefaults(defs, 1, in) ELSE 0
        matched == IF scan.matched # 0 THEN <<"expectations", scan.matched>>
                   ELSE IF dflt # 0 THEN <<"defaults", dflt>>
                   ELSE <<>>
        matchedExpectation == IF scan.matched # 0 THEN scan.exps[scan.matched]
                              ELSE defs[dflt]
    IN IF matched = <<>>
       THEN [exps |-> scan.exps, matched |-> matched, errorf |-> errs,
             fatalf |-> 1, fatalMsg |-> "Unexpected call",
             fatalArgs |-> <<in>>, w |-> <<>>]
       ELSE IF matchedExpectation.response = <<>>
       THEN [exps |-> scan.exps, matched |-> matched, errorf |-> errs,
             fatalf |-> 1,
             fatalMsg |-> "Response not defined for expectation",
             fatalArgs |-> [j \in 1..Len(matchedExpectation.requestValidations)
                              |-> matchedExpectation.requestValidations[j]
                                                    .description],
             w |-> <<>>]
       ELSE [exps |-> scan.exps, matched |-> matched, errorf |-> errs,
             fatalf |-> 0, fatalMsg |-> "", fatalArgs |-> <<>>,
             w |-> buildResponse(matchedExpectation.response[1])]

(* ServeHTTP reporting a failed EVERY check with Fatalf and returning *)
ServeHTTPResultEveryFatal(ev, exps, defs, in) ==
    IF checkEvery(ev, 1, in) > 0
    THEN [exps |-> exps, matched |-> <<>>, errorf |-> 0, fatalf |-> 1,
          fatalMsg |-> "EVERY expectation failed", fatalArgs |-> <<>>,
          w |-> <<>>]
    ELSE matchAndRespond(exps, defs, in, 0)

(* the handler leaving the registry as it is once AssertExpectations()     *)
(* has been called                                                         *)
ServeHTTPResultFrozenAfterAssert(ev, exps, defs, in) ==
    LET res == matchAndRespond(exps, defs, in, checkEvery(ev, 1, in))
    IN IF finisheCalled THEN [res EXCEPT !.exps = exps] ELSE res

(* The whole handler on the registry (ev, exps, defs) and request in.      *)
(* Result: the new s.expectations, the matched expectation, the calls on   *)
(* T and what was written to the ResponseWriter.                           *)
ServeHTTPResult(ev, exps, defs, in) ==
    matchAndRespond(exps, defs, in, checkEvery(ev, 1, in))

(* what the handler would do with no EVERY() expectation registered *)
SansEvery(res) ==
    [exps |-> res.exps, matched |-> res.matched, fatalf |-> res.fatalf,
     fatalMsg |-> res.fatalMsg, fatalArgs |-> res.fatalArgs, w |-> res.w]

(* The counting rule of the specification: the request satisfies every     *)
(* validator of expectation i while count < max, and no earlier            *)
(* expectation does.                                                       *)
AllPass(exp, in) ==
    \A j \in 1..Len(exp.requestValidations) :
        validation(exp.requestValidations[j], in)

SpecEligible(exp, in) == exp.count < exp.max /\ AllPass(exp, in)

SpecSelected(exps, i, in) ==
    /\ SpecEligible(exps[i], in)
    /\ \A k \in 1..(i - 1) : ~SpecEligible(exps[k], in)

(* number of (every-validator, request) pairs that fail for request in *)
FailingEveryPairs(ev, in) ==
    Cardinality({p \in UNION {{<<i, j>> :
                                    j \in 1..Len(ev[i].requestValidations)} :
                               i \in 1..Len(ev)} :
                    ~validation(ev[p[1]].requestValidations[p[2]], in)})

ServeHTTP(in) ==
    /\ ~serverClosed
    /\ served < MaxRequests
    /\ LET res == ServeHTTPResult(every, expectations, defaults, in)
       IN /\ expectations' = res.exps
          /\ errorfCalls' = errorfCalls + res.errorf
          /\ last' = [NoLast EXCEPT
                        !.op = "ServeHTTP", !.req = <<in>>,
                        !.before = expectations,
                        !.matched = res.matched,
                        !.fatalf = res.fatalf, !.fatalMsg = res.fatalMsg,
                        !.fatalArgs = res.fatalArgs,
                        !.errorf = res.errorf, !.w = res.w,
                        !.sansEvery =
                           <<SansEvery(ServeHTTPResult(<<>>, expectations,
                                                       defaults, in))>>]
    /\ served' = served + 1
    /\ everyFailPairs' = everyFailPairs + FailingEveryPairs(every, in)
    /\ specHits' = [i \in 1..Len(expectations) |->
                      specHits[i]
                      + (IF SpecSelected(expectations, i, in) THEN 1 ELSE 0)]
    /\ UNCHANGED <<every, defaults, finisheCalled, serverClosed, timesCalled,
                   written, inflight, verdict>>

----------------------------------------------------------------------------
(* Declaration API *)

Registered == Len(every) + Len(expectations) + Len(defaults)

RECURSIVE ValidationsIn(_)
ValidationsIn(exps) ==
    IF exps = <<>> THEN 0
    ELSE Len(Head(exps).requestValidations) + ValidationsIn(Tail(exps))

Validations ==
    ValidationsIn(every) + ValidationsIn(expectations) + ValidationsIn(defaults)

EVERY ==
    /\ ~serverClosed
    /\ Registered < MaxRegistered
    /\ every' = Append(every, requestExpectation(0, 0, 0, TRUE, FALSE))
    /\ last' = NoLast
    /\ UNCHANGED <<expectations, defaults, finisheCalled, serverClosed,
                   served, errorfCalls, everyFailPairs, specHits, timesCalled,
                   written, inflight, verdict>>

(* EXPECT leaving min and max at their zero values *)
EXPECTZeroBounds ==
    /\ ~serverClosed
    /\ Registered < MaxRegistered
    /\ expectations' =
          Append(expectations, requestExpectation(0, 0, 0, FALSE, FALSE))
    /\ specHits' = Append(specHits, 0)
    /\ last' = NoLast
    /\ UNCHANGED <<every, defaults, finisheCalled, serverClosed, served,
                   errorfCalls, everyFailPairs, timesCalled, written,
                   inflight, verdict>>

EXPECT ==
    /\ ~serverClosed
    /\ Registered < MaxRegistered
    /\ expectations' =
          Append(expectations, requestExpectation(0, 1, 1, FALSE, FALSE))
    /\ specHits' = Append(specHits, 0)
    /\ last' = NoLast
    /\ UNCHANGED <<every, defaults, finisheCalled, serverClosed, served,
                   errorfCalls, everyFailPairs, timesCalled, written,
                   inflight, verdict>>

DEFAULT ==
    /\ ~serverClosed
    /\ Registered < MaxRegistered
    /\ defaults' = Append(defaults, requestExpectation(0, 0, 0, FALSE, TRUE))
    /\ last' = NoLast
    /\ UNCHANGED <<every, expectations, finisheCalled, serverClosed, served,
                   errorfCalls, everyFailPairs, specHits, timesCalled,
                   written, inflight, verdict>>

(* A handle is the *requestExpectation the creating call returned: the     *)
(* sequence it was appended to and its position there.                     *)
Handles ==
    {<<"every", i>> : i \in 1..Len(every)}
    \cup {<<"expectations", i>> : i \in 1..Len(expectations)}
    \cup {<<"defaults", i>> : i \in 1..Len(defaults)}

Deref(h) ==
    CASE h[1] = "every" -> every[h[2]]
      [] h[1] = "expectations" -> expectations[h[2]]
      [] h[1] = "defaults" -> defaults[h[2]]

(* assignment through the pointer h *)
Store(h, exp) ==
    /\ every' = IF h[1] = "every" THEN [every EXCEPT ![h[2]] = exp]
                ELSE every
    /\ expectations' = IF h[1] = "expectations"
                       THEN [expectations EXCEPT ![h[2]] = exp]
                       ELSE expectations
    /\ defaults' = IF h[1] = "defaults" THEN [defaults EXCEPT ![h[2]] = exp]
                   ELSE defaults

GET(h) ==
    /\ ~serverClosed
    /\ h \in Handles
    /\ Validations < MaxValidations
    /\ Store(h, appendValidation(Deref(h),
                                 requestValidation("method", "GET", "GET")))
    /\ last' = NoLast
    /\ UNCHANGED <<finisheCalled, serverClosed, served, errorfCalls,
                   everyFailPairs, specHits, timesCalled, written, inflight,
                   verdict>>

Path(h, path) ==
    /\ ~serverClosed
    /\ h \in Handles
    /\ Validations < MaxValidations
    /\ Store(h, appendValidation(Deref(h),
                                 requestValidation("path", path,
                                                   Concat("Path: ", path))))
    /\ last' = NoLast
    /\ UNCHANGED <<finisheCalled, serverClosed, served, errorfCalls,
                   everyFailPairs, specHits, timesCalled, written, inflight,
                   verdict>>

(* A call-count modifier called through the handle h: op and n name the   *)
(* call, exp is the expectation it leaves behind.                          *)
Modify(h, op, n, exp) ==
    /\ ~serverClosed
    /\ h \in Handles
    /\ Store(h, exp)
    /\ last' = [NoLast EXCEPT !.op = op, !.h = h, !.arg = n,
                              !.before = <<Deref(h)>>]
    /\ timesCalled' = timesCalled \cup {h}
    /\ UNCHANGED <<finisheCalled, serverClosed, served, errorfCalls,
                   everyFailPairs, specHits, written, inflight, verdict>>

TimesCall(h, n) == h \in Handles /\ Modify(h, "Times", n, Times(Deref(h), n))

MinTimesCall(h, n) ==
    h \in Handles /\ Modify(h, "MinTimes", n, MinTimes(Deref(h), n))

MaxTimesCall(h, n) ==
    h \in Handles /\ Modify(h, "MaxTimes", n, MaxTimes(Deref(h), n))

AnyTimesCall(h) ==
    h \in Handles /\ Modify(h, "AnyTimes", 0, AnyTimes(Deref(h)))

OnceCall(h) == h \in Handles /\ Modify(h, "Once", 0, Once(Deref(h)))

TwiceCall(h) == h \in Handles /\ Modify(h, "Twice", 0, Twice(Deref(h)))

AtMostOnceCall(h) ==
    h \in Handles /\ Modify(h, "AtMostOnce", 0, AtMostOnce(Deref(h)))

AtLeastOnceCall(h) ==
    h \in Handles /\ Modify(h, "AtLeastOnce", 0, AtLeastOnce(Deref(h)))

(* Response without the test of exp.every *)
ResponseOnEvery(h, code) ==
    /\ ~serverClosed
    /\ h \in Handles
    /\ LET exp == Deref(h)
           noValidation == Len(exp.requestValidations) = 0 /\ ~exp.defaultExp
       IN /\ Store(h, [exp EXCEPT !.response = <<MockResponse(code)>>])
          /\ last' = [NoLast EXCEPT
                        !.op = "Response", !.h = h, !.arg = code,
                        !.fatalf = IF noValidation THEN 1 ELSE 0,
                        !.fatalMsg = IF noValidation
                                     THEN "no request validation specified"
                                     ELSE ""]
    /\ written' = [written EXCEPT ![h] = <<MockResponse(code)>>]
    /\ UNCHANGED <<finisheCalled, serverClosed, served, errorfCalls,
                   everyFailPairs, specHits, timesCalled, inflight, verdict>>

(* requestExpectation.Response: refused with Fatalf on an EVERY()          *)
(* expectation; a second Fatalf, without return, when a non-default        *)
(* expectation has no validator                                            *)
Response(h, code) ==
    /\ ~serverClosed
    /\ h \in Handles
    /\ LET exp == Deref(h)
           noValidation == Len(exp.requestValidations) = 0 /\ ~exp.defaultExp
       IN IF exp.every
          THEN /\ UNCHANGED <<every, expectations, defaults>>
               /\ last' = [NoLast EXCEPT
                             !.op = "Response", !.h = h, !.arg = code,
                             !.fatalf = 1,
                             !.fatalMsg = "Every cannot be used with Response"]
          ELSE /\ Store(h, [exp EXCEPT !.response = <<MockResponse(code)>>])
               /\ last' = [NoLast EXCEPT
                             !.op = "Response", !.h = h, !.arg = code,
                             !.fatalf = IF noValidation THEN 1 ELSE 0,
                             !.fatalMsg =
                                IF noValidation
                                THEN "no request validation specified"
                                ELSE ""]
    /\ written' = IF Deref(h).every THEN written
                  ELSE [written EXCEPT ![h] = <<MockResponse(code)>>]
    /\ UNCHANGED <<finisheCalled, serverClosed, served, errorfCalls,
                   everyFailPairs, specHits, timesCalled, inflight, verdict>>

(* A call on the ResponseExpectation that the last Response(code) call on  *)
(* h returned: resp is the MockResponse it leaves behind, cfg what the     *)
(* caller has asked for so far.                                            *)
Build(h, op, resp, cfg) ==
    /\ ~serverClosed
    /\ h \in Handles
    /\ Deref(h).response # <<>>
    /\ Store(h, [Deref(h) EXCEPT !.response = <<resp>>])
    /\ written' = [written EXCEPT ![h] = <<cfg>>]
    /\ last' = [NoLast EXCEPT !.op = op, !.h = h,
                              !.before = <<Deref(h).response[1]>>]
    /\ UNCHANGED <<finisheCalled, serverClosed, served, errorfCalls,
                   everyFailPairs, specHits, timesCalled, inflight, verdict>>

RespHeaderCall(h, key, value) ==
    /\ h \in Handles
    /\ Deref(h).response # <<>>
    /\ Build(h, "Header", RespHeader(Deref(h).response[1], key, value),
             [written[h][1] EXCEPT !.Headers[key] = <<value>>])

RespContentTypeCall(h, contentType) ==
    /\ h \in Handles
    /\ Deref(h).response # <<>>
    /\ Build(h, "ContentType",
             RespContentType(Deref(h).response[1], contentType),
             [written[h][1] EXCEPT
                !.Headers["Content-Type"] = <<contentType>>])

RespHeadersCall(h, headers) ==
    /\ h \in Handles
    /\ Deref(h).response # <<>>
    /\ Build(h, "Headers", RespHeaders(Deref(h).response[1], headers),
             [written[h][1] EXCEPT
                !.Headers = [k \in HeaderKeys |->
                               IF headers[k] = <<>> THEN @[k]
                               ELSE headers[k]]])

RespBodyCall(h, data) ==
    /\ h \in Handles
    /\ Deref(h).response # <<>>
    /\ Build(h, "Body", RespBody(Deref(h).response[1], data),
             [written[h][1] EXCEPT !.Body = data])

RespStringBodyCall(h, body) ==
    /\ h \in Handles
    /\ Deref(h).response # <<>>
    /\ Build(h, "StringBody", RespStringBody(Deref(h).response[1], body),
             [written[h][1] EXCEPT !.Body = <<body>>])

RespJsonBodyCall(h, object) ==
    /\ ~serverClosed
    /\ h \in Handles
    /\ Deref(h).response # <<>>
    /\ LET resp == Deref(h).response[1]
           failed == object # "nil" /\ Marshal(object).err
       IN /\ Store(h, [Deref(h) EXCEPT
                         !.response = <<RespJsonBody(resp, object)>>])
          /\ written' = [written EXCEPT
                           ![h] = <<[@[1] EXCEPT
                                      !.Headers["Content-Type"] =
                                         IF @ = <<>>
                                         THEN <<"application/json">> ELSE @,
                                      !.Body = IF object = "nil" THEN <<>>
                                               ELSE Marshal(object).data]>>]
          /\ last' = [NoLast EXCEPT
                        !.op = "JsonBody", !.h = h, !.before = <<resp>>,
                        !.fatalf = IF failed THEN 1 ELSE 0,
                        !.fatalMsg = IF failed THEN "could not parse to json"
                                     ELSE ""]
    /\ UNCHANGED <<finisheCalled, serverClosed, served, errorfCalls,
                   everyFailPairs, specHits, timesCalled, inflight, verdict>>

----------------------------------------------------------------------------
(* Verification and teardown *)

Line(kind, n, description, neverMatched, count, bound) ==
    [kind |-> kind, n |-> n, description |-> description,
     neverMatched |-> neverMatched, count |-> count, bound |-> bound]

(* the loop over exp.requestValidations without showFirstUnmatched: every  *)
(* validator never satisfied is annotated                                  *)
RECURSIVE validationLinesEveryUnmatched(_, _, _)
validationLinesEveryUnmatched(vals, j, showFirstUnmatched) ==
    IF j > Len(vals) THEN <<>>
    ELSE <<Line("validation", j, vals[j].description, ~vals[j].satisfied,
                0, 0)>>
         \o validationLinesEveryUnmatched(vals, j + 1, showFirstUnmatched)

(* the loop over exp.requestValidations inside AssertExpectations *)
RECURSIVE validationLines(_, _, _)
validationLines(vals, j, showFirstUnmatched) ==
    IF j > Len(vals) THEN <<>>
    ELSE LET mark == ~vals[j].satisfied /\ ~showFirstUnmatched
         IN <<Line("validation", j, vals[j].description, mark, 0, 0)>>
            \o validationLines(vals, j + 1, showFirstUnmatched \/ mark)

(* assertOne without the count > max test *)
assertOneNoMax(exp, i) ==
    LET noValidation == Len(exp.requestValidations) = 0
        outOfBounds == exp.count < exp.min
    IN [unsatisfied |-> noValidation \/ outOfBounds,
        buf |->
          (IF noValidation
           THEN <<Line("Expectation", i, "", FALSE, 0, 0),
                  Line("no request validation defined", i, "", FALSE, 0, 0)>>
           ELSE <<>>)
          \o
          (IF outOfBounds
           THEN <<Line("Expectation", i, "", FALSE, 0, 0)>>
                \o validationLines(exp.requestValidations, 1, FALSE)
                \o <<Line("only calls but at least", i, "", FALSE,
                          exp.count, exp.min)>>
           ELSE <<>>)]

(* assertOne flagging a counted expectation that has no response *)
assertOneRequiresResponse(exp, i) ==
    LET noValidation == Len(exp.requestValidations) = 0
        noResponse == exp.response = <<>>
        outOfBounds == exp.count < exp.min \/ exp.count > exp.max
    IN [unsatisfied |-> noValidation \/ noResponse \/ outOfBounds,
        buf |->
          (IF noValidation
           THEN <<Line("Expectation", i, "", FALSE, 0, 0),
                  Line("no request validation defined", i, "", FALSE, 0, 0)>>
           ELSE <<>>)
          \o
          (IF noResponse
           THEN <<Line("Expectation", i, "", FALSE, 0, 0),
                  Line("no response defined", i, "", FALSE, 0, 0)>>
           ELSE <<>>)
          \o
          (IF outOfBounds
           THEN <<Line("Expectation", i, "", FALSE, 0, 0)>>
                \o validationLines(exp.requestValidations, 1, FALSE)
                \o (IF exp.count < exp.min
                    THEN <<Line("only calls but at least", i, "", FALSE,
                                exp.count, exp.min)>>
                    ELSE IF exp.count > exp.max
                    THEN <<Line("calls but at most", i, "", FALSE,
                                exp.count, exp.max)>>
                    ELSE <<>>)
           ELSE <<>>)]

(* assertOne without the test for an empty validator list *)
assertOneBoundsOnly(exp, i) ==
    LET outOfBounds == exp.count < exp.min \/ exp.count > exp.max
    IN [unsatisfied |-> outOfBounds,
        buf |->
          IF outOfBounds
          THEN <<Line("Expectation", i, "", FALSE, 0, 0)>>
               \o validationLines(exp.requestValidations, 1, FALSE)
               \o (IF exp.count < exp.min
                   THEN <<Line("only calls but at least", i, "", FALSE,
                               exp.count, exp.min)>>
                   ELSE IF exp.count > exp.max
                   THEN <<Line("calls but at most", i, "", FALSE,
                               exp.count, exp.max)>>
                   ELSE <<>>)
          ELSE <<>>]

(* body of the loop over s.expectations inside AssertExpectations *)
assertOne(exp, i) ==
    LET noValidation == Len(exp.requestValidations) = 0
        outOfBounds == exp.count < exp.min \/ exp.count > exp.max
    IN [unsatisfied |-> noValidation \/ outOfBounds,
        buf |->
          (IF noValidation
           THEN <<Line("Expectation", i, "", FALSE, 0, 0),
                  Line("no request validation defined", i, "", FALSE, 0, 0)>>
           ELSE <<>>)
          \o
          (IF outOfBounds
           THEN <<Line("Expectation", i, "", FALSE, 0, 0)>>
                \o validationLines(exp.requestValidations, 1, FALSE)
                \o (IF exp.count < exp.min
                    THEN <<Line("only calls but at least", i, "", FALSE,
                                exp.count, exp.min)>>
                    ELSE IF exp.count > exp.max
                    THEN <<Line("calls but at most", i, "", FALSE,
                                exp.count, exp.max)>>
                    ELSE <<>>)
           ELSE <<>>)]

RECURSIVE assertLoop(_, _)
assertLoop(exps, i) ==
    IF i > Len(exps) THEN [unsatisfied |-> FALSE, buf |-> <<>>]
    ELSE LET one == assertOne(exps[i], i)
             rest == assertLoop(exps, i + 1)
         IN [unsatisfied |-> one.unsatisfied \/ rest.unsatisfied,
             buf |-> one.buf \o rest.buf]

(* AssertExpectations noting that it was called only when it reports       *)
(* nothing                                                                 *)
AssertExpectationsFlagOnPass ==
    /\ LET res == assertLoop(expectations, 1)
       IN /\ finisheCalled' = (finisheCalled \/ ~res.unsatisfied)
          /\ last' = [NoLast EXCEPT
                        !.op = "AssertExpectations",
                        !.fatalf = IF res.unsatisfied THEN 1 ELSE 0,
                        !.fatalMsg = IF res.unsatisfied
                                     THEN "expectation(s) not satisfied"
                                     ELSE "",
                        !.report = IF res.unsatisfied THEN res.buf ELSE <<>>]
    /\ verdict' = IF assertLoop(expectations, 1).unsatisfied THEN "fail"
                  ELSE "pass"
    /\ UNCHANGED <<every, expectations, defaults, serverClosed, served,
                   errorfCalls, everyFailPairs, specHits, timesCalled,
                   written, inflight>>

(* AssertExpectations starting the counts afresh after its report *)
AssertExpectationsResetsCounts ==
    /\ finisheCalled' = TRUE
    /\ LET res == assertLoop(expectations, 1)
       IN last' = [NoLast EXCEPT
                     !.op = "AssertExpectations",
                     !.fatalf = IF res.unsatisfied THEN 1 ELSE 0,
                     !.fatalMsg = IF res.unsatisfied
                                  THEN "expectation(s) not satisfied" ELSE "",
                     !.report = IF res.unsatisfied THEN res.buf ELSE <<>>]
    /\ verdict' = IF assertLoop(expectations, 1).unsatisfied THEN "fail"
                  ELSE "pass"
    /\ expectations' = [i \in 1..Len(expectations) |->
                          [expectations[i] EXCEPT !.count = 0]]
    /\ UNCHANGED <<every, defaults, serverClosed, served, errorfCalls,
                   everyFailPairs, specHits, timesCalled, written, inflight>>

AssertExpectations ==
    /\ finisheCalled' = TRUE
    /\ LET res == assertLoop(expectations, 1)
       IN last' = [NoLast EXCEPT
                     !.op = "AssertExpectations",
                     !.fatalf = IF res.unsatisfied THEN 1 ELSE 0,
                     !.fatalMsg = IF res.unsatisfied
                                  THEN "expectation(s) not satisfied" ELSE "",
                     !.report = IF res.unsatisfied THEN res.buf ELSE <<>>]
    /\ verdict' = IF assertLoop(expectations, 1).unsatisfied THEN "fail"
                  ELSE "pass"
    /\ UNCHANGED <<every, expectations, defaults, serverClosed, served,
                   errorfCalls, everyFailPairs, specHits, timesCalled,
                   written, inflight>>

(* Shutdown without the test of finisheCalled *)
ShutdownNoUsageTest ==
    /\ serverClosed' = TRUE
    /\ last' = [NoLast EXCEPT !.op = "Shutdown"]
    /\ UNCHANGED <<every, expectations, defaults, finisheCalled, served,
                   errorfCalls, everyFailPairs, specHits, timesCalled,
                   written, inflight, verdict>>

Shutdown ==
    /\ IF ~finisheCalled
       THEN /\ last' = [NoLast EXCEPT
                          !.op = "Shutdown", !.fatalf = 1,
                          !.fatalMsg = "AssertExpectations() was not called"]
            /\ UNCHANGED serverClosed
       ELSE /\ serverClosed' = TRUE
            /\ last' = [NoLast EXCEPT !.op = "Shutdown"]
    /\ UNCHANGED <<every, expectations, defaults, finisheCalled, served,
                   errorfCalls, everyFailPairs, specHits, timesCalled,
                   written, inflight, verdict>>

----------------------------------------------------------------------------

Next ==
    \/ EVERY
    \/ EXPECT
    \/ DEFAULT
    \/ \E h \in HandleIds : GET(h)
    \/ \E h \in HandleIds, path \in DeclaredPaths : Path(h, path)
    \/ \E h \in HandleIds, n \in TimesArgs :
          h[1] = "expectations" /\ TimesCall(h, n)
    \/ \E h \in HandleIds, code \in Codes : Response(h, code)
    \/ \E in \in Requests : ServeHTTP(in)
    \/ AssertExpectations
    \/ Shutdown

Spec == Init /\ [][Next]_vars

(* The call-count bounds: one expectation of any of the three kinds, every *)
(* call-count modifier with arguments of BoundsArgs, requests and          *)
(* verification.                                                           *)
NextBounds ==
    \/ Registered < MaxBoundsRegistered /\ EVERY
    \/ Registered < MaxBoundsRegistered /\ EXPECT
    \/ Registered < MaxBoundsRegistered /\ DEFAULT
    \/ \E h \in HandleIds : GET(h)
    \/ \E h \in HandleIds, n \in BoundsArgs : TimesCall(h, n)
    \/ \E h \in HandleIds, n \in BoundsArgs : MinTimesCall(h, n)
    \/ \E h \in HandleIds, n \in BoundsArgs : MaxTimesCall(h, n)
    \/ \E h \in HandleIds : AnyTimesCall(h)
    \/ \E h \in HandleIds : OnceCall(h)
    \/ \E h \in HandleIds : TwiceCall(h)
    \/ \E h \in HandleIds : AtMostOnceCall(h)
    \/ \E h \in HandleIds : AtLeastOnceCall(h)
    \/ \E h \in HandleIds, code \in Codes : Response(h, code)
    \/ \E in \in Requests : ServeHTTP(in)
    \/ AssertExpectations

SpecBounds == Init /\ [][NextBounds]_vars

----------------------------------------------------------------------------
(* ServeHTTP step by step, for requests delivered concurrently *)

Proc(p) == inflight.proc[p]

Quiescent == \A p \in Procs : Proc(p).pc = "idle"

(* a step of goroutine p that touches neither the registry nor the lock *)
Goto(p, rec) ==
    /\ inflight' = [inflight EXCEPT !.proc[p] = rec]
    /\ last' = NoLast
    /\ UNCHANGED <<every, defaults, finisheCalled, serverClosed, served,
                   everyFailPairs, specHits, timesCalled, written, verdict>>

(* the http server calls ServeHTTP(w, r) on goroutine p *)
Arrive(p, in) ==
    /\ ~serverClosed
    /\ Proc(p).pc = "idle"
    /\ inflight' =
          [inflight EXCEPT
             !.proc[p] = [Idle EXCEPT
                            !.pc = "lock", !.in = <<in>>,
                            !.arrivedAfter =
                               {q \in Procs : Proc(q).pc = "done"}],
             !.base = IF Quiescent THEN expectations ELSE @]
    /\ last' = NoLast
    /\ UNCHANGED <<every, expectations, defaults, finisheCalled, serverClosed,
                   served, errorfCalls, everyFailPairs, specHits, timesCalled,
                   written, verdict>>

(* s.handlerMutex.Lock() taken without waiting for the holder *)
ServeHTTPLockNoWait(p) ==
    /\ Proc(p).pc = "lock"
    /\ inflight' = [inflight EXCEPT !.mutex = p, !.proc[p].pc = "every"]
    /\ last' = NoLast
    /\ UNCHANGED <<every, expectations, defaults, finisheCalled, serverClosed,
                   served, errorfCalls, everyFailPairs, specHits, timesCalled,
                   written, verdict>>

(* s.handlerMutex.Lock() *)
ServeHTTPLock(p) ==
    /\ Proc(p).pc = "lock"
    /\ inflight.mutex = 0
    /\ inflight' = [inflight EXCEPT !.mutex = p, !.proc[p].pc = "every"]
    /\ last' = NoLast
    /\ UNCHANGED <<every, expectations, defaults, finisheCalled, serverClosed,
                   served, errorfCalls, everyFailPairs, specHits, timesCalled,
                   written, verdict>>

(* check EVERY expectation *)
ServeHTTPEvery(p) ==
    /\ Proc(p).pc = "every"
    /\ LET errs == checkEvery(every, 1, Proc(p).in[1])
       IN /\ errorfCalls' = errorfCalls + errs
          /\ Goto(p, [Proc(p) EXCEPT !.pc = "scan", !.errorf = errs,
                                     !.i = 1, !.j = 1])
    /\ UNCHANGED expectations

(* one turn of the loops outerExp: the end of s.expectations, a match, a   *)
(* failing validator (continue outerExp) or a passing one, which is        *)
(* marked satisfied                                                        *)
ServeHTTPScan(p) ==
    /\ Proc(p).pc = "scan"
    /\ LET me == Proc(p)
           i == me.i
           j == me.j
       IN IF i > Len(expectations)
          THEN Goto(p, [me EXCEPT !.pc = "defaults"]) /\ UNCHANGED expectations
          ELSE IF j > Len(expectations[i].requestValidations)
          THEN /\ Goto(p, [me EXCEPT !.pc = "read",
                                     !.matched = <<"expectations", i>>])
               /\ UNCHANGED expectations
          ELSE IF ~validation(expectations[i].requestValidations[j], me.in[1])
          THEN /\ Goto(p, [me EXCEPT !.i = i + 1, !.j = 1])
               /\ UNCHANGED expectations
          ELSE /\ Goto(p, [me EXCEPT !.j = j + 1])
               /\ expectations' =
                     [expectations EXCEPT
                        ![i].requestValidations[j].satisfied = TRUE]
    /\ UNCHANGED errorfCalls

(* matchedExpectation.count++, the read *)
ServeHTTPRead(p) ==
    /\ Proc(p).pc = "read"
    /\ Goto(p, [Proc(p) EXCEPT
                  !.pc = "write",
                  !.tmp = expectations[Proc(p).matched[2]].count])
    /\ UNCHANGED <<expectations, errorfCalls>>

(* matchedExpectation.count++, the write *)
ServeHTTPWrite(p) ==
    /\ Proc(p).pc = "write"
    /\ expectations' =
          [expectations EXCEPT ![Proc(p).matched[2]].count = Proc(p).tmp + 1]
    /\ Goto(p, [Proc(p) EXCEPT !.pc = "respond"])
    /\ UNCHANGED errorfCalls

(* check if call matches a default *)
ServeHTTPDefaults(p) ==
    /\ Proc(p).pc = "defaults"
    /\ LET dflt == outerDefaults(defaults, 1, Proc(p).in[1])
       IN Goto(p, [Proc(p) EXCEPT
                     !.pc = "respond",
                     !.matched = IF dflt = 0 THEN <<>>
                                 ELSE <<"defaults", dflt>>])
    /\ UNCHANGED <<expectations, errorfCalls>>

(* the end of the handler without the deferred Unlock on the paths that    *)
(* report with Fatalf                                                      *)
ServeHTTPRespondFatalKeepsLock(p) ==
    /\ Proc(p).pc = "respond"
    /\ LET me == Proc(p)
           matchedExpectation == IF me.matched = <<>> THEN <<>>
                                 ELSE <<Deref(me.matched)>>
       IN IF matchedExpectation = <<>>
          THEN Goto(p, [me EXCEPT !.pc = "done", !.fatalf = 1,
                                  !.fatalMsg = "Unexpected call"])
          ELSE IF matchedExpectation[1].response = <<>>
          THEN Goto(p, [me EXCEPT
                          !.pc = "done", !.fatalf = 1,
                          !.fatalMsg = "Response not defined for expectation"])
          ELSE Goto(p, [me EXCEPT
                          !.pc = "unlock",
                          !.w = buildResponse(matchedExpectation[1].response[1])])
    /\ UNCHANGED <<expectations, errorfCalls>>

(* the unexpected call, the missing response (both Fatalf and return) or   *)
(* the response                                                            *)
ServeHTTPRespond(p) ==
    /\ Proc(p).pc = "respond"
    /\ LET me == Proc(p)
           matchedExpectation == IF me.matched = <<>> THEN <<>>
                                 ELSE <<Deref(me.matched)>>
       IN IF matchedExpectation = <<>>
          THEN Goto(p, [me EXCEPT !.pc = "unlock", !.fatalf = 1,
                                  !.fatalMsg = "Unexpected call"])
          ELSE IF matchedExpectation[1].response = <<>>
          THEN Goto(p, [me EXCEPT
                          !.pc = "unlock", !.fatalf = 1,
                          !.fatalMsg = "Response not defined for expectation"])
          ELSE Goto(p, [me EXCEPT
                          !.pc = "unlock",
                          !.w = buildResponse(matchedExpectation[1].response[1])])
    /\ UNCHANGED <<expectations, errorfCalls>>

(* defer s.handlerMutex.Unlock() *)
ServeHTTPUnlock(p) ==
    /\ Proc(p).pc = "unlock"
    /\ inflight' = [inflight EXCEPT !.mutex = 0, !.proc[p].pc = "done"]
    /\ last' = NoLast
    /\ UNCHANGED <<every, expectations, defaults, finisheCalled, serverClosed,
                   served, errorfCalls, everyFailPairs, specHits, timesCalled,
                   written, verdict>>

(* the steps of goroutine p inside ServeHTTP *)
ServeHTTPStep(p) ==
    \/ ServeHTTPLock(p)
    \/ ServeHTTPEvery(p)
    \/ ServeHTTPScan(p)
    \/ ServeHTTPRead(p)
    \/ ServeHTTPWrite(p)
    \/ ServeHTTPDefaults(p)
    \/ ServeHTTPRespond(p)
    \/ ServeHTTPUnlock(p)

(* One expectation is declared while no request is under way; then the     *)
(* requests arrive and are handled concurrently, and the test may call     *)
(* AssertExpectations() at any moment.                                     *)
NextConcurrent ==
    \/ Quiescent /\ Registered < MaxBoundsRegistered /\ EVERY
    \/ Quiescent /\ Registered < MaxBoundsRegistered /\ EXPECT
    \/ Quiescent /\ Registered < MaxBoundsRegistered /\ DEFAULT
    \/ \E h \in HandleIds : Quiescent /\ GET(h)
    \/ \E h \in HandleIds, path \in DeclaredPaths : Quiescent /\ Path(h, path)
    \/ \E h \in HandleIds, code \in Codes : Quiescent /\ Response(h, code)
    \/ \E p \in Procs, in \in Requests : Arrive(p, in)
    \/ \E p \in Procs : ServeHTTPLock(p)
    \/ \E p \in Procs : ServeHTTPEvery(p)
    \/ \E p \in Procs : ServeHTTPScan(p)
    \/ \E p \in Procs : ServeHTTPRead(p)
    \/ \E p \in Procs : ServeHTTPWrite(p)
    \/ \E p \in Procs : ServeHTTPDefaults(p)
    \/ \E p \in Procs : ServeHTTPRespond(p)
    \/ \E p \in Procs : ServeHTTPUnlock(p)
    \/ AssertExpectations

SpecConcurrent == Init /\ [][NextConcurrent]_vars

(* the same, where a goroutine inside ServeHTTP that can take a step       *)
(* eventually takes one                                                    *)
SpecConcurrentFair ==
    SpecConcurrent /\ \A p \in Procs : WF_vars(ServeHTTPStep(p))

----------------------------------------------------------------------------
(* Shutdown step by step, with requests under way *)

(* a step of Shutdown() that only moves the test goroutine *)
ShutdownGoto(pc) ==
    /\ inflight' = [inflight EXCEPT !.teardown = pc]
    /\ last' = NoLast
    /\ UNCHANGED <<every, expectations, defaults, finisheCalled, served,
                   errorfCalls, everyFailPairs, specHits, timesCalled,
                   written, verdict>>

(* Shutdown() is called: the usage error and return, or on to the lock *)
ShutdownEnter ==
    /\ inflight.teardown = "idle"
    /\ IF ~finisheCalled
       THEN /\ last' = [NoLast EXCEPT
                          !.op = "Shutdown", !.fatalf = 1,
                          !.fatalMsg = "AssertExpectations() was not called"]
            /\ UNCHANGED inflight
       ELSE /\ last' = NoLast
            /\ inflight' = [inflight EXCEPT !.teardown = "lock"]
    /\ UNCHANGED <<every, expectations, defaults, finisheCalled, serverClosed,
                   served, errorfCalls, everyFailPairs, specHits, timesCalled,
                   written, verdict>>

(* s.handlerMutex.Lock() in Shutdown *)
ShutdownLock ==
    /\ inflight.teardown = "lock"
    /\ inflight.mutex = 0
    /\ inflight' = [inflight EXCEPT !.mutex = Teardown, !.teardown = "close"]
    /\ last' = NoLast
    /\ UNCHANGED <<every, expectations, defaults, finisheCalled, serverClosed,
                   served, errorfCalls, everyFailPairs, specHits, timesCalled,
                   written, verdict>>

(* s.server.Close(), first part: the listener is closed, no new request    *)
(* is accepted                                                             *)
ShutdownClose ==
    /\ inflight.teardown = "close"
    /\ serverClosed' = TRUE
    /\ ShutdownGoto("wait")

(* s.server.Close(), second part: it blocks until all outstanding          *)
(* requests on the server have completed                                   *)
ShutdownWait ==
    /\ inflight.teardown = "wait"
    /\ \A p \in Procs : Proc(p).pc \in {"idle", "done"}
    /\ ShutdownGoto("unlock")
    /\ UNCHANGED serverClosed

(* defer s.handlerMutex.Unlock() in Shutdown *)
ShutdownUnlock ==
    /\ inflight.teardown = "unlock"
    /\ inflight' = [inflight EXCEPT !.mutex = 0, !.teardown = "done"]
    /\ last' = [NoLast EXCEPT !.op = "Shutdown"]
    /\ UNCHANGED <<every, expectations, defaults, finisheCalled, serverClosed,
                   served, errorfCalls, everyFailPairs, specHits, timesCalled,
                   written, verdict>>

(* the steps of the test goroutine inside Shutdown() *)
ShutdownStep ==
    \/ ShutdownLock
    \/ ShutdownClose
    \/ ShutdownWait
    \/ ShutdownUnlock

(* The requests handled concurrently as in NextConcurrent, with the test   *)
(* goroutine calling AssertExpectations() and Shutdown().                  *)
NextTeardown ==
    \/ Quiescent /\ Registered < MaxBoundsRegistered /\ EXPECT
    \/ \E h \in HandleIds : Quiescent /\ GET(h)
    \/ \E h \in HandleIds, code \in Codes : Quiescent /\ Response(h, code)
    \/ \E p \in Procs, in \in Requests : Arrive(p, in)
    \/ \E p \in Procs : ServeHTTPLock(p)
    \/ \E p \in Procs : ServeHTTPEvery(p)
    \/ \E p \in Procs : ServeHTTPScan(p)
    \/ \E p \in Procs : ServeHTTPRead(p)
    \/ \E p \in Procs : ServeHTTPWrite(p)
    \/ \E p \in Procs : ServeHTTPDefaults(p)
    \/ \E p \in Procs : ServeHTTPRespond(p)
    \/ \E p \in Procs : ServeHTTPUnlock(p)
    \/ AssertExpectations
    \/ ShutdownEnter
    \/ ShutdownLock
    \/ ShutdownClose
    \/ ShutdownWait
    \/ ShutdownUnlock

SpecTeardown == Init /\ [][NextTeardown]_vars

(* the same, where a goroutine that can take a step inside ServeHTTP or    *)
(* inside Shutdown eventually takes one                                    *)
SpecTeardownFair ==
    /\ SpecTeardown
    /\ \A p \in Procs : WF_vars(ServeHTTPStep(p))
    /\ WF_vars(ShutdownStep)

----------------------------------------------------------------------------
(* Construction: Opts.validate and NewWithOpts *)

(* Opts.Port, a string, as the sequence of its characters *)
Ports ==
    {<<>>, <<"0">>, <<"8", "0">>, <<"0", "8", "0">>, <<"+", "8", "0">>,
     <<"-", "0">>, <<"-", "1">>, <<"-">>, <<" ", "8", "0">>, <<"8", "0", "a">>,
     <<"A", "B", "C">>, <<"6", "5", "5", "3", "5">>,
     <<"6", "5", "5", "3", "6">>}

(* Opts.Cert and Opts.Key: a nil reader, a reader of PEM data that         *)
(* tls.X509KeyPair accepts, a reader of other data                        *)
Readers == {"nil", "pem", "garbage"}

OptsValues == [Port : Ports, UseSSL : BOOLEAN, Cert : Readers, Key : Readers]

(* T.Fatalf returns (a mock T) or ends the calling goroutine (testing.T) *)
TKinds == {"returns", "goexit"}

Digits == {"0", "1", "2", "3", "4", "5", "6", "7", "8", "9"}

DigitValue(c) ==
    CASE c = "0" -> 0 [] c = "1" -> 1 [] c = "2" -> 2 [] c = "3" -> 3
      [] c = "4" -> 4 [] c = "5" -> 5 [] c = "6" -> 6 [] c = "7" -> 7
      [] c = "8" -> 8 [] c = "9" -> 9

(* the digit loop of strconv.Atoi: n = n*10 + digit, an error on any       *)
(* other character                                                         *)
RECURSIVE AtoiDigits(_, _, _)
AtoiDigits(str, k, n) ==
    IF k > Len(str) THEN [err |-> FALSE, i |-> n]
    ELSE IF str[k] \notin Digits THEN [err |-> TRUE, i |-> 0]
    ELSE AtoiDigits(str, k + 1, n * 10 + DigitValue(str[k]))

(* strconv.Atoi on the short strings of Ports: an optional sign, then at   *)
(* least one digit                                                         *)
Atoi(str) ==
    IF str = <<>> THEN [err |-> TRUE, i |-> 0]
    ELSE LET signed == str[1] \in {"+", "-"}
             rest == IF signed THEN Tail(str) ELSE str
             res == AtoiDigits(rest, 1, 0)
         IN IF rest = <<>> \/ res.err THEN [err |-> TRUE, i |-> 0]
            ELSE [err |-> FALSE,
                  i |-> IF str[1] = "-" THEN 0 - res.i ELSE res.i]

(* validate accepting UseSSL with the key missing *)
validateCertOnly(o) ==
    IF o.UseSSL /\ o.Cert = "nil"
    THEN [err |-> "UseSSL is set to true but no certificate or key",
          o |-> o]
    ELSE LET p == IF o.Port = <<>> THEN [o EXCEPT !.Port = <<"0">>] ELSE o
             res == Atoi(p.Port)
         IN IF res.err
            THEN [err |-> "port is not a valid integer", o |-> p]
            ELSE IF res.i < 0 \/ res.i > 65535
            THEN [err |-> "port is not a valid port number", o |-> p]
            ELSE [err |-> "", o |-> p]

(* Opts.validate: the error ("" for nil) and the options as it leaves      *)
(* them (an empty Port becomes "0")                                        *)
validate(o) ==
    IF o.UseSSL /\ (o.Cert = "nil" \/ o.Key = "nil")
    THEN [err |-> "UseSSL is set to true but no certificate or key",
          o |-> o]
    ELSE LET p == IF o.Port = <<>> THEN [o EXCEPT !.Port = <<"0">>] ELSE o
             res == Atoi(p.Port)
         IN IF res.err
            THEN [err |-> "port is not a valid integer", o |-> p]
            ELSE IF res.i < 0 \/ res.i > 65535
            THEN [err |-> "port is not a valid port number", o |-> p]
            ELSE [err |-> "", o |-> p]

(* The outcome of NewWithOpts: the Fatal/Fatalf calls, what the caller     *)
(* gets ("nil", "server", or "none" when the call does not return), the    *)
(* listeners opened and whether the server was started.                    *)
Outcome(fatal, returned, opened, started) ==
    [fatal |-> fatal, returned |-> returned, opened |-> opened,
     started |-> started]

(* NewWithOpts(t, opts) where net.Listen succeeds or not (listenOk) and T  *)
(* is of kind tKind.  httptest.NewUnstartedServer opens a listener on an   *)
(* ephemeral port; after a failed net.Listen the Listener is nil and       *)
(* Start/StartTLS panic.                                                   *)
NewWithOptsResult(opts, listenOk, tKind) ==
    LET v == validate(opts)
        relisten == v.o.Port # <<"0">>
        listenFailed == relisten /\ ~listenOk
        keyPairFailed == v.o.UseSSL /\ ~(v.o.Cert = "pem" /\ v.o.Key = "pem")
        opened == IF relisten /\ listenOk THEN 2 ELSE 1
    IN IF v.err # ""
       THEN Outcome(1, IF tKind = "returns" THEN "nil" ELSE "none", 0, FALSE)
       ELSE IF listenFailed
       THEN Outcome(IF tKind = "returns" /\ keyPairFailed THEN 2 ELSE 1,
                    "none", opened, FALSE)
       ELSE IF keyPairFailed
       THEN IF tKind = "returns" THEN Outcome(1, "server", opened, TRUE)
            ELSE Outcome(1, "none", opened, FALSE)
       ELSE Outcome(0, "server", opened, TRUE)

NewWithOpts(opts, listenOk, tKind) ==
    /\ last' = [NoLast EXCEPT
                  !.op = "NewWithOpts", !.req = <<opts>>,
                  !.result = <<NewWithOptsResult(opts, listenOk, tKind)>>]
    /\ UNCHANGED <<every, expectations, defaults, finisheCalled, serverClosed,
                   served, errorfCalls, everyFailPairs, specHits, timesCalled,
                   written, inflight, verdict>>

NextOpts ==
    \E opts \in OptsValues, listenOk \in BOOLEAN, tKind \in TKinds :
        NewWithOpts(opts, listenOk, tKind)

SpecOpts == Init /\ [][NextOpts]_vars

(* The response templates: one counted or default expectation, the calls   *)
(* of the response builder, and requests.                                  *)
NextResponse ==
    \/ Registered < MaxBoundsRegistered /\ EXPECT
    \/ Registered < MaxBoundsRegistered /\ DEFAULT
    \/ \E h \in HandleIds : GET(h)
    \/ \E h \in HandleIds, code \in Codes : Response(h, code)
    \/ \E h \in HandleIds, key \in HeaderKeys, value \in HeaderValues :
          RespHeaderCall(h, key, value)
    \/ \E h \in HandleIds, contentType \in HeaderValues :
          RespContentTypeCall(h, contentType)
    \/ \E h \in HandleIds, headers \in HeaderMaps :
          RespHeadersCall(h, headers)
    \/ \E h \in HandleIds, data \in Bodies : RespBodyCall(h, data)
    \/ \E h \in HandleIds, data \in Bodies \ {<<>>} :
          RespStringBodyCall(h, data[1])
    \/ \E h \in HandleIds, object \in JsonObjects :
          RespJsonBodyCall(h, object)
    \/ \E in \in Requests : ServeHTTP(in)

SpecResponse == Init /\ [][NextResponse]_vars

----------------------------------------------------------------------------
(* Verification (C1, C2) *)

Counted == 1..Len(expectations)

OutOfBounds(exp) == exp.count < exp.min \/ exp.count > exp.max

NoValidator(exp) == Len(exp.requestValidations) = 0

(* expectation i is enumerated in the report of the last operation *)
Reported(i) ==
    \E k \in 1..Len(last.report) :
        last.report[k].kind = "Expectation" /\ last.report[k].n = i

Asserted == last.op = "AssertExpectations"

(* C1: AssertExpectations() reports a fatal failure if and only if some    *)
(* counted expectation has count < min, count > max or no validator, and   *)
(* reports nothing otherwise; every and default expectations never make    *)
(* it fail.                                                                *)
C1_AssertFatalIff ==
    Asserted =>
        /\ last.fatalf \in {0, 1}
        /\ last.fatalf = 1 <=>
              \E i \in Counted : \/ OutOfBounds(expectations[i])
                                 \/ NoValidator(expectations[i])
        /\ last.errorf = 0
        /\ last.fatalf = 0 => last.report = <<>> /\ last.fatalMsg = ""

(* verification failed on a count above max, with every and default        *)
(* expectations absent from the report                                     *)
C1_Witness ==
    /\ Asserted
    /\ last.fatalf = 1
    /\ \E i \in Counted : expectations[i].count > expectations[i].max
    /\ Len(defaults) > 0

C1_PassWitness ==
    /\ Asserted
    /\ last.fatalf = 0
    /\ Len(expectations) > 0
    /\ served > 0

(* the expectation was created by EXPECT() and no call-count modifier was  *)
(* called on it                                                            *)
Unmodified(i) == <<"expectations", i>> \notin timesCalled

AtLeastLine(i, count, min) ==
    \E k \in 1..Len(last.report) :
        last.report[k] = Line("only calls but at least", i, "", FALSE,
                              count, min)

(* C2 as stated: an unmodified EXPECT() expectation has bounds [1,1],      *)
(* verification passes for it exactly when it was matched once, and after  *)
(* zero requests it is reported with "only 0 calls but at least 1".        *)
C2_Original ==
    \A i \in Counted :
        Unmodified(i) =>
            /\ expectations[i].min = 1 /\ expectations[i].max = 1
            /\ Asserted => (~Reported(i) <=> expectations[i].count = 1)
            /\ Asserted /\ served = 0 => AtLeastLine(i, 0, 1)

(* C2 amended: the same, where "passes exactly when matched once" is       *)
(* claimed of the expectations that have at least one validator.           *)
C2_DefaultBounds ==
    \A i \in Counted :
        Unmodified(i) =>
            /\ expectations[i].min = 1 /\ expectations[i].max = 1
            /\ Asserted /\ ~NoValidator(expectations[i]) =>
                  (~Reported(i) <=> expectations[i].count = 1)
            /\ Asserted /\ NoValidator(expectations[i]) => Reported(i)
            /\ Asserted /\ served = 0 => AtLeastLine(i, 0, 1)

C2_Witness ==
    /\ Asserted
    /\ served = 0
    /\ \E i \in Counted :
          /\ Unmodified(i)
          /\ ~NoValidator(expectations[i])
          /\ AtLeastLine(i, 0, 1)

----------------------------------------------------------------------------
(* Matching (C3 .. C8) *)

Served == last.op = "ServeHTTP"

(* the request of the last ServeHTTP *)
In == last.req[1]

MatchedIn(name) == Len(last.matched) = 2 /\ last.matched[1] = name

(* counted expectations all of whose validators the request satisfies,     *)
(* taken in the registry as it was when the request arrived                *)
PassingCounted ==
    {i \in 1..Len(last.before) : AllPass(last.before[i], In)}

PassingDefaults == {k \in 1..Len(defaults) : AllPass(defaults[k], In)}

First(S) == CHOOSE x \in S : \A y \in S : x <= y

(* What the client receives for the calls w made on the ResponseWriter:   *)
(* the status of the first WriteHeader, the headers set before it (later   *)
(* ones are not sent) and the data written.  Nothing when the handler      *)
(* made no call.                                                           *)
FirstCall(w, call) ==
    IF \E k \in 1..Len(w) : w[k].call = call
    THEN First({k \in 1..Len(w) : w[k].call = call})
    ELSE 0

Received(w) ==
    IF w = <<>> THEN <<>>
    ELSE LET status == FirstCall(w, "WriteHeader")
             header == FirstCall(w, "Header")
             write == FirstCall(w, "Write")
         IN <<[Code |-> IF status = 0 THEN 200 ELSE w[status].Code,
               Header |-> IF header # 0 /\ (status = 0 \/ header < status)
                          THEN w[header].Header ELSE EmptyMap,
               Body |-> IF write = 0 THEN "" ELSE w[write].Data]>>

(* what the client is to receive from expectation exp: its response        *)
(* template, nothing when it has none                                      *)
Rendered(exp) ==
    IF exp.response = <<>> THEN <<>>
    ELSE <<[Code |-> exp.response[1].Code,
            Header |-> exp.response[1].Headers,
            Body |-> IF exp.response[1].Body = <<>> THEN ""
                     ELSE exp.response[1].Body[1]]>>

CountsUnchanged(S) ==
    \A i \in S : expectations[i].count = last.before[i].count

C4_CountNeverAboveMax ==
    /\ \A i \in Counted : expectations[i].count <= expectations[i].max
    /\ Served /\ MatchedIn("expectations") =>
          last.before[last.matched[2]].count < last.before[last.matched[2]].max

(* C5 as stated: the count of each counted expectation equals the number   *)
(* of processed requests that satisfied all its validators while its       *)
(* count was below max and no earlier-registered expectation matched.      *)
C5_CountEqualsSpecHits ==
    \A i \in Counted : expectations[i].count = specHits[i]

(* C6: a counted expectation whose validators all pass is selected and     *)
(* rendered whatever the defaults are; only when there is none is the      *)
(* first default in registration order whose validators all pass selected  *)
(* and rendered.                                                           *)
C6_DefaultsOnlyAsFallback ==
    Served =>
        /\ PassingCounted # {} =>
              /\ last.matched = <<"expectations", First(PassingCounted)>>
              /\ Received(last.w)
                    = Rendered(last.before[First(PassingCounted)])
        /\ PassingCounted = {} /\ PassingDefaults # {} =>
              /\ last.matched = <<"defaults", First(PassingDefaults)>>
              /\ Received(last.w) = Rendered(defaults[First(PassingDefaults)])
        /\ MatchedIn("defaults") => PassingCounted = {}

(* a counted expectation is selected and rendered although a default       *)
(* matches the request too                                                 *)
C6_Witness ==
    /\ Served
    /\ MatchedIn("expectations")
    /\ PassingDefaults # {}
    /\ last.w # <<>>
    /\ Rendered(defaults[First(PassingDefaults)]) # <<>>
    /\ Received(last.w) # Rendered(defaults[First(PassingDefaults)])

(* the set of counted expectations AssertExpectations would flag *)
Flagged(exps) ==
    {i \in 1..Len(exps) : OutOfBounds(exps[i]) \/ NoValidator(exps[i])}

----------------------------------------------------------------------------
(* EVERY() expectations (C9, C10) *)

(* C9: a failing every-validator is reported with Errorf and never with    *)
(* Fatal/Fatalf, and the request is matched, counted and answered exactly  *)
(* as with no EVERY() expectation registered.                              *)
C9_EveryNeverBlocks ==
    Served =>
        /\ [exps |-> expectations, matched |-> last.matched,
            fatalf |-> last.fatalf, fatalMsg |-> last.fatalMsg,
            fatalArgs |-> last.fatalArgs, w |-> last.w] = last.sansEvery[1]
        /\ FailingEveryPairs(every, In) > 0 => last.errorf > 0

(* an every-validator failed and the request was answered all the same *)
C9_Witness ==
    /\ Served
    /\ last.errorf > 0
    /\ last.fatalf = 0
    /\ last.w # <<>>

(* C10: every validator of every EVERY() expectation is evaluated on every *)
(* request, without short-circuit: the number of Errorf reports equals     *)
(* the number of (request, every-validator) pairs that fail.               *)
C10_EveryValidatorEvaluated ==
    /\ errorfCalls = everyFailPairs
    /\ Served => last.errorf = FailingEveryPairs(every, In)

(* two validators of one EVERY() expectation failed on the same request,   *)
(* which was answered by a matching expectation                            *)
C10_Witness ==
    /\ Served
    /\ last.errorf = 2
    /\ last.w # <<>>

----------------------------------------------------------------------------
(* Missing response (C11, C12) *)

(* the expectation selected by the last ServeHTTP, as it was registered    *)
(* when the request arrived                                                *)
Selected ==
    IF MatchedIn("expectations") THEN last.before[last.matched[2]]
    ELSE defaults[last.matched[2]]

Descriptions(exp) ==
    [j \in 1..Len(exp.requestValidations) |->
        exp.requestValidations[j].description]

(* C11: when the expectation selected for a request has no response        *)
(* template, one fatal configuration error listing the descriptions of     *)
(* its validators is reported and nothing is written: no status, no        *)
(* header, no body.                                                        *)
C11_MissingResponseFatal ==
    Served /\ last.matched # <<>> /\ Selected.response = <<>> =>
        /\ last.fatalf = 1
        /\ last.fatalMsg = "Response not defined for expectation"
        /\ last.fatalArgs = Descriptions(Selected)
        /\ last.w = <<>>

(* a counted expectation with two validators and no response was selected *)
C11_Witness ==
    /\ Served
    /\ MatchedIn("expectations")
    /\ Selected.response = <<>>
    /\ Len(last.fatalArgs) = 2
    /\ last.fatalMsg = "Response not defined for expectation"

(* a request that selects a counted expectation without response is        *)
(* reported as a fatal error of the handler                                *)
NoResponseFatalOnSelection ==
    Served /\ MatchedIn("expectations") /\ Selected.response = <<>> =>
        last.fatalf = 1 /\ last.w = <<>>

(* C12 as stated: a counted expectation on which Response(...) was never   *)
(* called is reported as a failure whether or not a request matches it:    *)
(* by the handler when a request selects it, and by verification when no   *)
(* request has matched it, also when its bounds allow zero calls.          *)
C12_Original ==
    /\ NoResponseFatalOnSelection
    /\ Asserted =>
          \A i \in Counted :
              expectations[i].response = <<>> /\ expectations[i].count = 0
                  => Reported(i)

(* C12 amended: the handler reports it when a request selects it; when no  *)
(* request has matched it, verification reports it exactly when its        *)
(* bounds exclude zero calls or it has no validator.                       *)
C12_ResponseCheckedOnSelection ==
    /\ NoResponseFatalOnSelection
    /\ Asserted =>
          \A i \in Counted :
              expectations[i].response = <<>> /\ expectations[i].count = 0
                  => (Reported(i) <=> \/ expectations[i].min > 0
                                      \/ expectations[i].max < 0
                                      \/ NoValidator(expectations[i]))

(* verification passed with an AnyTimes() expectation that has a validator *)
(* and no response, and that no request matched                            *)
C12_Witness ==
    /\ Asserted
    /\ last.fatalf = 0
    /\ Len(expectations) = 1
    /\ expectations[1].response = <<>>
    /\ expectations[1].count = 0
    /\ expectations[1].min = 0 /\ expectations[1].max = MaxInt32
    /\ ~NoValidator(expectations[1])

----------------------------------------------------------------------------
(* Teardown (C13, C14) *)

ShutdownDone == last.op = "Shutdown"

(* C13: finisheCalled is false until the first AssertExpectations() call   *)
(* and true ever after; a Shutdown() call reports the fatal usage error    *)
(* when AssertExpectations() has not been called before it, and no error   *)
(* when it has.                                                            *)
C13_ShutdownNeedsAssert ==
    [][/\ finisheCalled => finisheCalled'
       /\ last'.op = "AssertExpectations" => finisheCalled'
       /\ ~finisheCalled /\ finisheCalled' => last'.op = "AssertExpectations"
       /\ last'.op = "Shutdown" /\ ~finisheCalled =>
             /\ last'.fatalf = 1
             /\ last'.fatalMsg = "AssertExpectations() was not called"
       /\ last'.op = "Shutdown" /\ finisheCalled =>
             last'.fatalf = 0 /\ last'.errorf = 0]_vars

(* Shutdown() reported the usage error on a server that had served a       *)
(* request and was never verified                                          *)
C13_Witness ==
    /\ ShutdownDone
    /\ last.fatalf = 1
    /\ ~finisheCalled
    /\ served > 0

(* C14 as stated: after any call of Shutdown() the server is closed, also  *)
(* on the path that reports the missing verification.                      *)
C14_ShutdownAlwaysCloses == ShutdownDone => serverClosed

----------------------------------------------------------------------------
(* Call-count bounds (C15 .. C17) *)

AllRegistered == every \o expectations \o defaults

(* the expectation the last call-count modifier was called on, before and  *)
(* after the call                                                          *)
Modified == last.op \in {"Times", "MinTimes", "MaxTimes", "AnyTimes", "Once",
                         "Twice", "AtMostOnce", "AtLeastOnce"}

Before == last.before[1]

After == Deref(last.h)

Bounds(exp) == <<exp.min, exp.max>>

(* C15: min <= max holds for every expectation created by EXPECT(),        *)
(* EVERY() or DEFAULT() after every sequence of call-count modifiers with  *)
(* arbitrary integer arguments.                                            *)
C15_MinAtMostMax ==
    \A i \in 1..Len(AllRegistered) :
        AllRegistered[i].min <= AllRegistered[i].max

(* MaxTimes(n) was called while min > n *)
C15_Witness ==
    /\ last.op = "MaxTimes"
    /\ Before.min > last.arg
    /\ Before.min <= Before.max
    /\ After.min = last.arg

AtMostLine(i) ==
    \E k \in 1..Len(last.report) :
        last.report[k].kind = "calls but at most" /\ last.report[k].n = i

(* with max = MaxInt32 no number of matches is reported as too many *)
UnboundedNeverTooMany ==
    Asserted =>
        \A i \in Counted : expectations[i].max = MaxInt32 => ~AtMostLine(i)

(* MaxTimes(n) called while min > n sets max to n and lowers min to n *)
MaxTimesLowersMin ==
    last.op = "MaxTimes" /\ last.h[1] = "expectations"
        /\ Before.min > last.arg
        => Bounds(After) = <<last.arg, last.arg>>

(* C16 as stated: on a counted expectation MinTimes(n), with no MaxTimes   *)
(* call after it, leaves max = MaxInt32, so that no number of matches is   *)
(* reported as too many; MaxTimes(n) called while min > n sets max to n    *)
(* and lowers min to n.                                                    *)
C16_Original ==
    /\ last.op = "MinTimes" /\ last.h[1] = "expectations" =>
          Bounds(After) = <<last.arg, MaxInt32>>
    /\ UnboundedNeverTooMany
    /\ MaxTimesLowersMin

(* C16 amended: MinTimes(n) leaves max = MaxInt32 when max was 1 before    *)
(* the call; from another max it leaves max as it was, raised to n if it   *)
(* was below n.  The rest as stated.                                       *)
C16_MinTimesUnboundedFromDefault ==
    /\ last.op = "MinTimes" /\ last.h[1] = "expectations" =>
          /\ After.min = last.arg
          /\ Before.max = 1 => After.max = MaxInt32
          /\ Before.max # 1 =>
                After.max = IF Before.max < last.arg THEN last.arg
                            ELSE Before.max
    /\ UnboundedNeverTooMany
    /\ MaxTimesLowersMin

(* MinTimes(3) was called on a counted expectation that EXPECT() had just  *)
(* created                                                                 *)
C16_Witness ==
    /\ last.op = "MinTimes"
    /\ last.h[1] = "expectations"
    /\ last.arg = 3
    /\ Bounds(Before) = <<1, 1>>
    /\ Bounds(After) = <<3, MaxInt32>>

(* C17: from every prior bounds state each shortcut leaves the same        *)
(* (min, max) as its documented expansion: Once() = Times(1), Twice() =    *)
(* Times(2), Times(n) = MinTimes(n).MaxTimes(n), AtMostOnce() =            *)
(* MinTimes(0).MaxTimes(1), AtLeastOnce() = MinTimes(1).MaxTimes(MaxInt32) *)
(* and AnyTimes() = MinTimes(0).MaxTimes(MaxInt32).                        *)
C17_ShortcutsEqualExpansions ==
    Modified =>
        /\ last.op = "Once" => Bounds(After) = Bounds(Times(Before, 1))
        /\ last.op = "Twice" => Bounds(After) = Bounds(Times(Before, 2))
        /\ last.op = "Times" =>
              Bounds(After)
                 = Bounds(MaxTimes(MinTimes(Before, last.arg), last.arg))
        /\ last.op = "AtMostOnce" =>
              Bounds(After) = Bounds(MaxTimes(MinTimes(Before, 0), 1))
        /\ last.op = "AtLeastOnce" =>
              Bounds(After) = Bounds(MaxTimes(MinTimes(Before, 1), MaxInt32))
        /\ last.op = "AnyTimes" =>
              Bounds(After) = Bounds(MaxTimes(MinTimes(Before, 0), MaxInt32))

(* AtMostOnce() was called on an expectation whose bounds an earlier       *)
(* modifier had moved away from those of its creation                      *)
C17_Witness ==
    /\ last.op = "AtMostOnce"
    /\ Before.min = 3
    /\ Before.max = MaxInt32
    /\ Bounds(After) = <<0, 1>>

----------------------------------------------------------------------------
(* Declaration errors (C18, C19) *)

ResponseCalled == last.op = "Response"

(* C18: Response(code) called on an expectation created by EVERY() is a    *)
(* fatal usage error at declaration time and attaches no response, so no   *)
(* every expectation carries a response in any reachable state.            *)
C18_EveryTakesNoResponse ==
    /\ \A i \in 1..Len(every) : every[i].response = <<>>
    /\ ResponseCalled /\ last.h[1] = "every" =>
          /\ last.fatalf = 1
          /\ last.fatalMsg = "Every cannot be used with Response"

(* Response(code) was called on an EVERY() expectation with two validators *)
C18_Witness ==
    /\ ResponseCalled
    /\ last.h = <<"every", 1>>
    /\ Len(every[1].requestValidations) = 2
    /\ last.fatalf = 1

NoValidationLine(i) ==
    \E k \in 1..Len(last.report) :
        /\ last.report[k].kind = "no request validation defined"
        /\ last.report[k].n = i

(* C19: a counted expectation with no validator is flagged by              *)
(* AssertExpectations() whatever its count; it is reported when            *)
(* Response(code) is called on it and at verification, and never by the    *)
(* request handler, which serves its response to any request.              *)
C19_NoValidatorAlwaysFails ==
    /\ Asserted =>
          \A i \in Counted :
              NoValidator(expectations[i]) =>
                  last.fatalf = 1 /\ Reported(i) /\ NoValidationLine(i)
    /\ ResponseCalled /\ last.h[1] = "expectations"
          /\ NoValidator(Deref(last.h)) =>
             /\ last.fatalf = 1
             /\ last.fatalMsg = "no request validation specified"
    /\ Served =>
          /\ last.fatalMsg \in {"", "Unexpected call",
                                "Response not defined for expectation"}
          /\ MatchedIn("expectations") /\ NoValidator(Selected)
                /\ Selected.response # <<>> =>
                   last.fatalf = 0 /\ Received(last.w) = Rendered(Selected)

(* verification flagged an expectation without validator whose count lies  *)
(* within its bounds                                                       *)
C19_Witness ==
    /\ Asserted
    /\ \E i \in Counted :
          /\ NoValidator(expectations[i])
          /\ ~OutOfBounds(expectations[i])
          /\ expectations[i].count > 0
          /\ NoValidationLine(i)

----------------------------------------------------------------------------
(* Rendering (C20) *)

(* what the test asked of the expectation selected by the last request *)
Configured == written[last.matched][1]

----------------------------------------------------------------------------
(* Response JsonBody (C21) *)

(* the MockResponse the last builder call worked on, after the call *)
AfterResponse == Deref(last.h).response[1]

----------------------------------------------------------------------------
(* Construction (C22) *)

Constructed == last.op = "NewWithOpts"

(* the decimal integer a port string denotes: an optional sign and one or  *)
(* more digits; <<>> when it denotes none                                  *)
RECURSIVE DecimalOf(_)
DecimalOf(digits) ==
    IF digits = <<>> THEN 0
    ELSE 10 * DecimalOf(SubSeq(digits, 1, Len(digits) - 1))
         + DigitValue(digits[Len(digits)])

DecimalInteger(port) ==
    LET digits == IF port # <<>> /\ port[1] \in {"+", "-"} THEN Tail(port)
                  ELSE port
    IN IF digits = <<>> \/ \E k \in 1..Len(digits) : digits[k] \notin Digits
       THEN <<>>
       ELSE <<IF port[1] = "-" THEN 0 - DecimalOf(digits)
              ELSE DecimalOf(digits)>>

Malformed(opts) ==
    \/ opts.UseSSL /\ (opts.Cert = "nil" \/ opts.Key = "nil")
    \/ /\ opts.Port # <<>>
       /\ \/ DecimalInteger(opts.Port) = <<>>
          \/ DecimalInteger(opts.Port)[1] < 0
          \/ DecimalInteger(opts.Port)[1] > 65535

(* C22: NewWithOpts reports a fatal error and hands out no server, with    *)
(* no listener ever opened, exactly when UseSSL is set with Cert or Key    *)
(* missing or Port is non-empty and not a decimal integer in [0, 65535];   *)
(* an empty Port is valid and leaves the ephemeral listener in place.      *)
C22_MalformedOptsFatal ==
    Constructed =>
        LET opts == last.req[1]
            res == last.result[1]
        IN /\ Malformed(opts) <=>
                 /\ res.fatal = 1
                 /\ res.returned # "server"
                 /\ res.opened = 0
           /\ Malformed(opts) => ~res.started
           /\ opts.Port = <<>> /\ ~Malformed(opts) => res.opened = 1

(* TLS was asked for with a certificate and no key, on a valid port *)
C22_Witness ==
    /\ Constructed
    /\ last.req[1].UseSSL
    /\ last.req[1].Cert = "pem"
    /\ last.req[1].Key = "nil"
    /\ last.req[1].Port = <<"8", "0">>
    /\ last.result[1].returned = "nil"
    /\ last.result[1].fatal = 1

----------------------------------------------------------------------------
(* C23: request processing is serialized *)

(* the positions from the every-validation through response rendering *)
InSection(p) ==
    Proc(p).pc \in {"every", "scan", "read", "write", "defaults", "respond",
                    "unlock"}

Finished == {p \in Procs : Proc(p).pc = "done"}

(* the orders in which the finished requests could have been served *)
SerialOrders ==
    {order \in [1..Cardinality(Finished) -> Finished] :
        \A a, b \in DOMAIN order : a # b => order[a] # order[b]}

(* serving the requests of order[k..] one after the other from exps gives  *)
(* every goroutine what it got and leaves final                            *)
RECURSIVE SerialRun(_, _, _, _)
SerialRun(order, k, exps, final) ==
    IF k > Len(order) THEN exps = final
    ELSE LET me == Proc(order[k])
             res == ServeHTTPResult(every, exps, defaults, me.in[1])
         IN /\ res.matched = me.matched
            /\ res.errorf = me.errorf
            /\ res.fatalf = me.fatalf
            /\ res.fatalMsg = me.fatalMsg
            /\ res.w = me.w
            /\ SerialRun(order, k + 1, res.exps, final)

MatchedBy(i) ==
    {p \in Finished : Proc(p).matched = <<"expectations", i>>}

(* C23: under any interleaving of concurrently delivered requests at most  *)
(* one request is between the every-validation and the end of response     *)
(* rendering; once the requests have finished, each expectation's count    *)
(* has been raised by exactly the number of requests that matched it, and  *)
(* the state and every response equal those of some serial order of the    *)
(* requests.                                                               *)
C23_Serialized ==
    /\ \A p, q \in Procs : InSection(p) /\ InSection(q) => p = q
    /\ (Finished # {} /\ \A p \in Procs : Proc(p).pc \in {"idle", "done"})
       => /\ \A i \in 1..Len(expectations) :
                expectations[i].count
                   = inflight.base[i].count + Cardinality(MatchedBy(i))
          /\ \E order \in SerialOrders :
                SerialRun(order, 1, inflight.base, expectations)

(* two requests delivered before either had finished have both matched     *)
(* the first expectation                                                   *)
C23_Witness ==
    /\ Finished = Procs
    /\ \A p \in Procs : Proc(p).arrivedAfter = {}
    /\ \A p \in Procs : Proc(p).matched = <<"expectations", 1>>
    /\ expectations[1].count = MaxConcurrent

----------------------------------------------------------------------------
(* The JSONBody request validator *)

(* A JSON text is the sequence of its tokens; " " is white space between   *)
(* tokens.  The texts are flat: the members of an object and the items of  *)
(* an array are scalars.                                                   *)
JsonKeys == <<"\"age\"", "\"extra\"", "\"name\"">>

JsonKeySet == {JsonKeys[k] : k \in DOMAIN JsonKeys}

JsonScalars == {"123", "123.0", "\"John\"", "\"field\"", "null"}

JsonTexts ==
    {<<"{", "\"age\"", ":", "123", ",", "\"name\"", ":", "\"John\"", "}">>,
     <<"{", " ", "\"name\"", " ", ":", " ", "\"John\"", ",", " ", "\"age\"",
       ":", " ", "123", "}">>,
     <<"{", "\"age\"", ":", "123", ",", "\"name\"", ":", "\"John\"", ",",
       "\"extra\"", ":", "\"field\"", "}">>,
     <<"{", "\"age\"", ":", "123.0", ",", "\"name\"", ":", "\"John\"", "}">>,
     <<"{", "\"age\"", ":", "123", ",", "\"name\"", ":", "\"John\"">>,
     <<"{", "}">>,
     <<"{", " ", "}">>,
     <<>>,
     <<"nil">>,
     <<"null">>,
     <<"123">>,
     <<"[", "123", ",", "\"John\"", "]">>,
     <<"[", " ", "123", ",", " ", "\"John\"", " ", "]">>,
     <<"[", "\"John\"", ",", "123", "]">>}

(* the values JSONBody(expected) is called with: a string holding a JSON   *)
(* text, a map, or a value json.Marshal rejects                            *)
NoMembers == [k \in JsonKeySet |-> <<>>]

GoString(text) == [goType |-> "string", text |-> text, members |-> NoMembers]

GoMap(members) == [goType |-> "map", text |-> <<>>, members |-> members]

GoChan == [goType |-> "chan", text |-> <<>>, members |-> NoMembers]

ExpectedJsons ==
    {GoString(text) : text \in JsonTexts}
    \cup {GoMap([NoMembers EXCEPT !["\"name\""] = <<"\"John\"">>,
                                  !["\"age\""] = <<"123">>]),
          GoChan}

(* the scanner skipping white space *)
IsSpace(token) == token = " "

SkipSpace(text) == SelectSeq(text, LAMBDA token : ~IsSpace(token))

(* a scalar as the decoder stores it: a number becomes a float64, which    *)
(* is encoded in its shortest form                                         *)
DecodeScalar(token) == IF token = "123.0" THEN "123" ELSE token

(* tokens[from..to] is a list of n >= 1 members key : scalar separated by  *)
(* commas                                                                  *)
IsMembers(tokens, from, to) ==
    /\ (to - from + 2) % 4 = 0
    /\ to >= from
    /\ \A k \in from..to :
          CASE (k - from) % 4 = 0 -> tokens[k] \in JsonKeySet
            [] (k - from) % 4 = 1 -> tokens[k] = ":"
            [] (k - from) % 4 = 2 -> tokens[k] \in JsonScalars
            [] (k - from) % 4 = 3 -> tokens[k] = ","

(* tokens[from..to] is a list of n >= 1 scalars separated by commas *)
IsItems(tokens, from, to) ==
    /\ (to - from) % 2 = 0
    /\ to >= from
    /\ \A k \in from..to :
          IF (k - from) % 2 = 0 THEN tokens[k] \in JsonScalars
          ELSE tokens[k] = ","

IsObject(tokens) ==
    /\ Len(tokens) >= 2
    /\ tokens[1] = "{"
    /\ tokens[Len(tokens)] = "}"
    /\ Len(tokens) = 2 \/ IsMembers(tokens, 2, Len(tokens) - 1)

IsArray(tokens) ==
    /\ Len(tokens) >= 2
    /\ tokens[1] = "["
    /\ tokens[Len(tokens)] = "]"
    /\ Len(tokens) = 2 \/ IsItems(tokens, 2, Len(tokens) - 1)

IsScalar(tokens) == Len(tokens) = 1 /\ tokens[1] \in JsonScalars

(* json.Valid *)
checkValid(text) ==
    LET tokens == SkipSpace(text)
    IN IsObject(tokens) \/ IsArray(tokens) \/ IsScalar(tokens)

(* the members of an object, a later member replacing an earlier one of    *)
(* the same key                                                            *)
RECURSIVE objectMembers(_, _, _)
objectMembers(tokens, k, members) ==
    IF k + 2 > Len(tokens) - 1 THEN members
    ELSE objectMembers(tokens, k + 4,
                       [members EXCEPT
                          ![tokens[k]] = <<DecodeScalar(tokens[k + 2])>>])

(* json.Unmarshal(data, &v) with v a nil map[string]interface{}: a syntax  *)
(* error for an invalid text, v left nil by null, an UnmarshalTypeError    *)
(* for a text that is not an object                                        *)
Unmarshal(data) ==
    LET tokens == SkipSpace(data)
    IN IF ~checkValid(data)
       THEN [err |-> "SyntaxError", v |-> <<>>]
       ELSE IF tokens = <<"null">>
       THEN [err |-> "", v |-> <<>>]
       ELSE IF ~IsObject(tokens)
       THEN [err |-> "UnmarshalTypeError", v |-> <<>>]
       ELSE [err |-> "", v |-> <<objectMembers(tokens, 2, NoMembers)>>]

(* the members of a map from the k-th key on, in the order of the keys *)
RECURSIVE marshalMembers(_, _, _)
marshalMembers(members, k, first) ==
    IF k > Len(JsonKeys) THEN <<>>
    ELSE IF members[JsonKeys[k]] = <<>>
    THEN marshalMembers(members, k + 1, first)
    ELSE (IF first THEN <<>> ELSE <<",">>)
         \o <<JsonKeys[k], ":", members[JsonKeys[k]][1]>>
         \o marshalMembers(members, k + 1, FALSE)

(* json.Marshal of a map[string]interface{}: null for the nil map, else    *)
(* the members sorted by key with no white space                           *)
MarshalMap(v) ==
    IF v = <<>> THEN <<"null">>
    ELSE <<"{">> \o marshalMembers(v[1], 1, TRUE) \o <<"}">>

(* jsonBodyValidation(expectedJson)(in): the error, "" for nil *)
jsonBodyValidation(expectedJson, Body) ==
    LET jsExpected == IF expectedJson.goType = "string" THEN expectedJson.text
                      ELSE MarshalMap(<<expectedJson.members>>)
        normJsExpected == Unmarshal(jsExpected)
        normJsActual == Unmarshal(Body)
    IN IF expectedJson.goType = "chan"
       THEN "could not parse provided json body"
       ELSE IF normJsExpected.err # ""
       THEN "could not parse expected json body"
       ELSE IF normJsActual.err # ""
       THEN "could not parse actual json body"
       ELSE IF MarshalMap(normJsActual.v) # MarshalMap(normJsExpected.v)
       THEN "json body should be"
       ELSE ""

(* the validator of JSONBody(expectedJson) applied to a request with Body *)
JSONBody(expectedJson, Body) ==
    /\ last' = [NoLast EXCEPT
                  !.op = "JSONBody", !.req = <<expectedJson, Body>>,
                  !.result = <<jsonBodyValidation(expectedJson, Body)>>]
    /\ UNCHANGED <<every, expectations, defaults, finisheCalled, serverClosed,
                   served, errorfCalls, everyFailPairs, specHits, timesCalled,
                   written, inflight, verdict>>

NextJson ==
    \E expectedJson \in ExpectedJsons, Body \in JsonTexts :
        JSONBody(expectedJson, Body)

SpecJson == Init /\ [][NextJson]_vars

----------------------------------------------------------------------------
(* C24: the JSONBody matcher compares structure *)

(* the value a valid flat JSON text denotes *)
JsonValue(text) ==
    LET tokens == SkipSpace(text)
    IN IF IsObject(tokens)
       THEN [type |-> "object",
             members |-> objectMembers(tokens, 2, NoMembers), items |-> <<>>]
       ELSE [type |-> IF IsArray(tokens) THEN "array" ELSE "scalar",
             members |-> NoMembers,
             items |-> [k \in DOMAIN tokens |-> DecodeScalar(tokens[k])]]

JsonMatched == last.op = "JSONBody" /\ last.req[1].goType = "string"

ExpectedText == last.req[1].text

ActualText == last.req[2]

StructurallyEqual ==
    /\ checkValid(ExpectedText)
    /\ checkValid(ActualText)
    /\ JsonValue(ExpectedText) = JsonValue(ActualText)

(* C24: the JSONBody matcher passes for every pair of expected and actual  *)
(* JSON texts that are structurally equal, fails when the actual body is   *)
(* valid JSON of another structure, and fails when the actual body is not  *)
(* valid JSON.                                                             *)
C24_JsonBodyStructural ==
    JsonMatched =>
       /\ StructurallyEqual => last.result[1] = ""
       /\ (checkValid(ExpectedText) /\ ~StructurallyEqual)
          => last.result[1] # ""
       /\ ~checkValid(ActualText) => last.result[1] # ""

(* the two halves of C24 that the validator meets: it fails on an actual   *)
(* body of another structure and on one that is not valid JSON             *)
C24_RejectsDifferent ==
    JsonMatched =>
       /\ (checkValid(ExpectedText) /\ ~StructurallyEqual)
          => last.result[1] # ""
       /\ ~checkValid(ActualText) => last.result[1] # ""

(* C24 for objects: texts of the same object in another layout match *)
C24_ObjectsMatch ==
    (JsonMatched /\ StructurallyEqual /\ IsObject(SkipSpace(ExpectedText)))
       => last.result[1] = ""

(* an array is matched against the same array laid out differently *)
C24_ArrayPair ==
    /\ JsonMatched
    /\ StructurallyEqual
    /\ IsArray(SkipSpace(ExpectedText))
    /\ ExpectedText # ActualText

----------------------------------------------------------------------------
(* C25: the report of AssertExpectations() *)

(* the registration indexes in the "n. Expectation" lines of the report,   *)
(* in the order of the report                                              *)
HeaderLines ==
    SelectSeq(last.report, LAMBDA line : line.kind = "Expectation")

(* the report holds, right after a header of expectation i, the            *)
(* descriptions of its validators in declared order and then its observed  *)
(* count with the bound it misses                                          *)
BlockOf(i) ==
    LET exp == expectations[i]
        n == Len(exp.requestValidations)
    IN \E k \in 1..Len(last.report) :
          /\ last.report[k].kind = "Expectation"
          /\ last.report[k].n = i
          /\ k + n + 1 <= Len(last.report)
          /\ \A j \in 1..n :
                /\ last.report[k + j].kind = "validation"
                /\ last.report[k + j].description
                      = exp.requestValidations[j].description
          /\ last.report[k + n + 1].count = exp.count
          /\ \/ /\ last.report[k + n + 1].kind = "only calls but at least"
                /\ last.report[k + n + 1].bound = exp.min
                /\ exp.count < exp.min
             \/ /\ last.report[k + n + 1].kind = "calls but at most"
                /\ last.report[k + n + 1].bound = exp.max
                /\ exp.count > exp.max

(* C25: one AssertExpectations() call makes at most one fatal report; the  *)
(* report enumerates every unsatisfied counted expectation exactly once,   *)
(* in registration order, by its 1-based registration index, followed by   *)
(* its validators' descriptions and, when the count is out of bounds, the  *)
(* observed count against the expected bound.                              *)
C25_ReportEnumeratesOnce ==
    Asserted =>
       /\ last.fatalf <= 1
       /\ {HeaderLines[k].n : k \in DOMAIN HeaderLines}
             = Flagged(expectations)
       /\ \A a, b \in DOMAIN HeaderLines :
             a < b => HeaderLines[a].n < HeaderLines[b].n
       /\ \A i \in Counted : OutOfBounds(expectations[i]) => BlockOf(i)

(* what holds of the report: the same, with the expectations enumerated    *)
(* in registration order but possibly more than once                       *)
C25_ReportInOrder ==
    Asserted =>
       /\ last.fatalf <= 1
       /\ {HeaderLines[k].n : k \in DOMAIN HeaderLines}
             = Flagged(expectations)
       /\ \A a, b \in DOMAIN HeaderLines :
             a < b => HeaderLines[a].n <= HeaderLines[b].n
       /\ \A i \in Counted : OutOfBounds(expectations[i]) => BlockOf(i)

----------------------------------------------------------------------------
(* C26: the "(never matched)" annotation *)

(* the validators of expectation i that no request has satisfied *)
NeverMatched(i) ==
    {j \in 1..Len(expectations[i].requestValidations) :
        ~expectations[i].requestValidations[j].satisfied}

(* the lines of the validators of expectation i in the report *)
ValidationLinesOf(i) ==
    LET n == Len(expectations[i].requestValidations)
        k == CHOOSE k \in 1..Len(last.report) :
                /\ last.report[k].kind = "Expectation"
                /\ last.report[k].n = i
                /\ k + n <= Len(last.report)
                /\ \A j \in 1..n : last.report[k + j].kind = "validation"
    IN [j \in 1..n |-> last.report[k + j]]

(* C26: for each counted expectation reported for its count, the report    *)
(* annotates with "(never matched)" exactly the first validator in         *)
(* declared order whose flag was never set and no other validator of that  *)
(* expectation; when every flag is set none is annotated.                  *)
C26_FirstNeverMatchedAnnotated ==
    Asserted =>
       \A i \in Counted :
          (OutOfBounds(expectations[i]) /\ ~NoValidator(expectations[i])) =>
             /\ BlockOf(i)
             /\ \A j \in DOMAIN ValidationLinesOf(i) :
                   ValidationLinesOf(i)[j].neverMatched
                      <=> /\ j \in NeverMatched(i)
                          /\ \A jj \in NeverMatched(i) : j <= jj

(* a request passed the first of two validators and failed the second;    *)
(* the report annotates the second and not the first                       *)
C26_Witness ==
    /\ Asserted
    /\ \E i \in Counted :
          /\ OutOfBounds(expectations[i])
          /\ NeverMatched(i) = {2}
          /\ ValidationLinesOf(i)[2].neverMatched
          /\ ~ValidationLinesOf(i)[1].neverMatched

(* an expectation with two validators neither of which was ever satisfied  *)
(* is reported with the annotation on the first only                       *)
C26_WitnessBothUnset ==
    /\ Asserted
    /\ \E i \in Counted :
          /\ OutOfBounds(expectations[i])
          /\ NeverMatched(i) = {1, 2}
          /\ ValidationLinesOf(i)[1].neverMatched
          /\ ~ValidationLinesOf(i)[2].neverMatched

----------------------------------------------------------------------------
(* C27: when a validator's flag is set *)

FlagBefore(i, j) == last.before[i].requestValidations[j].satisfied

FlagAfter(i, j) == expectations[i].requestValidations[j].satisfied

(* the scan of the request reaches expectation i: no earlier expectation   *)
(* is matched                                                              *)
Reached(i) == \A k \in 1..(i - 1) : ~AllPass(last.before[k], In)

(* the request passes validator j of expectation i and all validators      *)
(* declared before it                                                      *)
PassesUpTo(i, j) ==
    \A k \in 1..j : validation(last.before[i].requestValidations[k], In)

(* C27 as claimed: a flag is set only by a request for which all           *)
(* validators of its expectation pass; a request that passes some leading  *)
(* validators of a counted expectation but fails a later one leaves every  *)
(* flag of that expectation unchanged.                                     *)
C27_Original ==
    Served =>
       \A i \in Counted :
          ~AllPass(last.before[i], In) =>
             \A j \in 1..Len(expectations[i].requestValidations) :
                FlagAfter(i, j) = FlagBefore(i, j)

(* C27 amended: a flag is set only by a request that passes its validator  *)
(* and all validators declared before it in its expectation; a request     *)
(* that passes some leading validators of a counted expectation the scan   *)
(* reaches but fails a later one sets the flags of those leading           *)
(* validators and leaves every other flag of that expectation unchanged.   *)
(* No flag is ever reset.                                                  *)
C27_FlagSetByLeadingPass ==
    Served =>
       \A i \in Counted :
          \A j \in 1..Len(expectations[i].requestValidations) :
             FlagAfter(i, j)
                <=> FlagBefore(i, j) \/ (Reached(i) /\ PassesUpTo(i, j))

(* a request passed the first validator of an expectation and failed the   *)
(* second: the first flag was set by it, the second was not                *)
C27_Witness ==
    /\ Served
    /\ \E i \in Counted :
          /\ Len(expectations[i].requestValidations) = 2
          /\ ~AllPass(last.before[i], In)
          /\ ~FlagBefore(i, 1) /\ FlagAfter(i, 1)
          /\ ~FlagAfter(i, 2)

----------------------------------------------------------------------------
(* C28: MinTimes(n) and max *)

(* C28: MinTimes(n) changes max only to re-normalize the bounds: called    *)
(* with n at most the current max (in particular after an explicit         *)
(* MaxTimes(1), Once() or AtMostOnce()) it leaves max unchanged, and       *)
(* called with n above the current max it raises max to exactly n.         *)
C28_MinTimesOnlyRenormalizes ==
    last.op = "MinTimes" =>
       /\ After.min = last.arg
       /\ last.arg <= Before.max => After.max = Before.max
       /\ last.arg > Before.max => After.max = last.arg

(* MinTimes(0) or MinTimes(1) was called on an expectation whose bounds    *)
(* [0, 1] came from AtMostOnce() or MaxTimes(1), and max is no longer 1    *)
C28_ExplicitMaxLost ==
    /\ last.op = "MinTimes"
    /\ last.arg \in {0, 1}
    /\ Bounds(Before) = <<0, 1>>
    /\ After.max = MaxInt32

(* C28 where the max before the call is not 1 *)
C28_RenormalizesUnlessOne ==
    last.op = "MinTimes" /\ Before.max # 1 =>
       /\ After.min = last.arg
       /\ last.arg <= Before.max => After.max = Before.max
       /\ last.arg > Before.max => After.max = last.arg

----------------------------------------------------------------------------
(* C29: the handler lock is released on every exit path *)

(* C29: a request that has left the handler, normally or after a fatal     *)
(* report, does not hold the handler lock, and every request that has      *)
(* arrived, also one arriving after another has finished with a fatal      *)
(* report, eventually acquires the lock and is processed.                  *)
C29_LockReleasedOnEveryPath ==
    /\ [](\A p \in Procs : Proc(p).pc = "done" => inflight.mutex # p)
    /\ \A p \in Procs : (Proc(p).pc = "lock") ~> (Proc(p).pc = "done")

(* a request ended with a fatal report, and a request that arrived after   *)
(* it had finished has been processed                                      *)
C29_Witness ==
    \E p, q \in Procs :
       /\ Proc(p).pc = "done"
       /\ Proc(p).fatalf = 1
       /\ Proc(q).pc = "done"
       /\ p \in Proc(q).arrivedAfter

----------------------------------------------------------------------------
(* C30: verification and request processing *)

(* C30: AssertExpectations() is mutually exclusive with request            *)
(* processing: it never reads counts or flags while a request is between   *)
(* acquiring and releasing the handler lock, so it cannot observe a        *)
(* request's flags set without the corresponding count increment.          *)
C30_AssertExcludesHandler ==
    Asserted =>
       /\ inflight.mutex = 0
       /\ \A p \in Procs : Proc(p).pc \notin {"read", "write"}

(* AssertExpectations() ran while a request had passed every validator of  *)
(* the first expectation and not yet counted: the report gives 0 calls    *)
(* and annotates no validator as never matched                             *)
C30_FlagsWithoutCount ==
    /\ Asserted
    /\ \E p \in Procs : /\ Proc(p).pc \in {"read", "write"}
                        /\ Proc(p).matched = <<"expectations", 1>>
    /\ ~NoValidator(expectations[1])
    /\ \E k \in 1..Len(last.report) :
          /\ last.report[k].kind = "only calls but at least"
          /\ last.report[k].n = 1
          /\ last.report[k].count = 0
    /\ \A k \in 1..Len(last.report) : ~last.report[k].neverMatched

----------------------------------------------------------------------------
(* C33: a counted expectation with no validator *)

(* the counted expectations that had no validator when the request arrived *)
EmptyCounted == {i \in 1..Len(last.before) : NoValidator(last.before[i])}

----------------------------------------------------------------------------
(* C34: a request matched by an expectation without response is counted *)

(* C34: when a request matches a counted expectation that has no response  *)
(* template, the count of the expectation is incremented and its           *)
(* validators are flagged before the fatal error is reported, and nothing  *)
(* is rolled back; AssertExpectations() judges such an expectation by the  *)
(* count that includes these requests.                                     *)
C34_MissingResponseStillCounts ==
    /\ (Served /\ MatchedIn("expectations") /\ Selected.response = <<>>) =>
          LET i == last.matched[2]
          IN /\ last.fatalf = 1
             /\ last.fatalMsg = "Response not defined for expectation"
             /\ expectations[i].count = last.before[i].count + 1
             /\ \A j \in 1..Len(expectations[i].requestValidations) :
                   FlagAfter(i, j)
    /\ Asserted =>
          \A i \in Counted :
             (expectations[i].response = <<>>
              /\ ~NoValidator(expectations[i]))
                => (Reported(i) <=> OutOfBounds(expectations[i]))

(* an expectation with bounds [1, 1] that never had a response was matched *)
(* by one request, and AssertExpectations() reports nothing                *)
C34_Witness ==
    /\ Asserted
    /\ last.fatalf = 0
    /\ Len(expectations) = 1
    /\ expectations[1].response = <<>>
    /\ ~NoValidator(expectations[1])
    /\ Bounds(expectations[1]) = <<1, 1>>
    /\ expectations[1].count = 1

----------------------------------------------------------------------------
(* C35: the flags of an expectation *)

Flags(exp) ==
    [j \in 1..Len(exp.requestValidations) |->
        exp.requestValidations[j].satisfied]

(* the flagged validators are the first ones of the list *)
PrefixFlagged(exp) ==
    \A j, k \in DOMAIN Flags(exp) : (j < k /\ Flags(exp)[k]) => Flags(exp)[j]

AllFlagged(exp) == \A j \in DOMAIN Flags(exp) : Flags(exp)[j]

NoneFlagged(exps) ==
    \A i \in 1..Len(exps) : \A j \in DOMAIN Flags(exps[i]) : ~Flags(exps[i])[j]

(* C35 as claimed: in every state the flagged validators of each counted   *)
(* expectation form a prefix of its validator list and count > 0 implies   *)
(* that all its validators are flagged; a request clears no flag and       *)
(* lowers no count; validators of every and default expectations are       *)
(* never flagged.                                                          *)
C35_Original ==
    /\ \A i \in Counted :
          /\ PrefixFlagged(expectations[i])
          /\ expectations[i].count > 0 => AllFlagged(expectations[i])
    /\ NoneFlagged(every)
    /\ NoneFlagged(defaults)
    /\ Served =>
          \A i \in Counted :
             /\ expectations[i].count >= last.before[i].count
             /\ \A j \in DOMAIN Flags(expectations[i]) :
                   FlagBefore(i, j) => FlagAfter(i, j)

(* one step of the program as C35 amended describes it *)
C35_Step ==
    /\ \A i \in 1..Len(expectations') : PrefixFlagged(expectations'[i])
    /\ NoneFlagged(every')
    /\ NoneFlagged(defaults')
    /\ Len(expectations') >= Len(expectations)
    /\ \A i \in 1..Len(expectations') :
          IF i > Len(expectations) THEN expectations'[i].count = 0
          ELSE /\ expectations'[i].count >= expectations[i].count
               /\ Len(Flags(expectations'[i])) >= Len(Flags(expectations[i]))
               /\ \A j \in DOMAIN Flags(expectations[i]) :
                     Flags(expectations[i])[j] => Flags(expectations'[i])[j]
               /\ expectations'[i].count > expectations[i].count
                     => AllFlagged(expectations'[i])
               /\ (/\ Len(Flags(expectations'[i]))
                         = Len(Flags(expectations[i]))
                   /\ expectations[i].count > 0
                         => AllFlagged(expectations[i]))
                     => (expectations'[i].count > 0
                            => AllFlagged(expectations'[i]))

(* C35 amended: in every reachable state the flagged validators of each    *)
(* counted expectation form a prefix of its validator list; a request      *)
(* that raises a count leaves all validators of that expectation flagged,  *)
(* so count > 0 implies that all its validators are flagged until a        *)
(* validator is appended to it after that; flags are never cleared and     *)
(* counts never decrease; validators of every and default expectations     *)
(* are never flagged.                                                      *)
C35_FlagsFormPrefix == [][C35_Step]_vars

(* a validator was appended to an expectation after a request had matched  *)
(* it: the count is 1 and the second validator is not flagged              *)
C35_Witness ==
    /\ Len(expectations) >= 1
    /\ expectations[1].count = 1
    /\ Flags(expectations[1]) = <<TRUE, FALSE>>

----------------------------------------------------------------------------
(* C36: AssertExpectations() reads the registry only *)

(* the step is a call of AssertExpectations() *)
AssertStep == last'.op = "AssertExpectations"

(* C36: AssertExpectations() changes no count, no bound, no flag and no    *)
(* sequence of the registry, only the flag that verification was called;   *)
(* called twice with no request in between it gives the same verdict and   *)
(* the same report both times.                                             *)
C36_AssertReadsOnly ==
    [][AssertStep =>
          /\ every' = every
          /\ expectations' = expectations
          /\ defaults' = defaults
          /\ serverClosed' = serverClosed
          /\ finisheCalled'
          /\ Asserted =>
                /\ last'.fatalf = last.fatalf
                /\ last'.fatalMsg = last.fatalMsg
                /\ last'.report = last.report]_vars

(* AssertExpectations() has reported an expectation that requests had      *)
(* matched twice                                                           *)
C36_Witness ==
    /\ Asserted
    /\ finisheCalled
    /\ last.fatalf = 1
    /\ \E i \in Counted : /\ expectations[i].count = 2
                          /\ AllFlagged(expectations[i])
                          /\ Reported(i)

----------------------------------------------------------------------------
(* C37: the flag that verification was called *)

(* C37: every AssertExpectations() call sets the flag that verification    *)
(* was called, whether it reported unsatisfied expectations or not, and    *)
(* nothing clears it: once AssertExpectations() has been called, every     *)
(* later Shutdown() reports no usage error and closes the server.          *)
C37_AssertedFlagSticks ==
    [][/\ AssertStep => finisheCalled'
       /\ finisheCalled => finisheCalled'
       /\ (finisheCalled /\ last'.op = "Shutdown") =>
             /\ last'.fatalf = 0
             /\ serverClosed']_vars

(* Shutdown() has closed the server although the latest                    *)
(* AssertExpectations() reported a failure                                 *)
C37_Witness ==
    /\ last.op = "Shutdown"
    /\ last.fatalf = 0
    /\ serverClosed
    /\ finisheCalled
    /\ verdict = "fail"

----------------------------------------------------------------------------
(* C38: a passing verification and teardown *)

AllInBounds(exps) ==
    \A i \in 1..Len(exps) : exps[i].min <= exps[i].count
                            /\ exps[i].count <= exps[i].max

(* Shutdown() has just closed the server *)
Closed == last.op = "Shutdown" /\ last.fatalf = 0 /\ serverClosed

----------------------------------------------------------------------------
(* The QueryParameterMatches request validator *)

(* Strings are sequences of characters.  A request carries, for the one    *)
(* parameter name of the validator, the values of the URL query string     *)
(* and the values of a form body, each a sequence (empty: the name is      *)
(* absent).                                                                *)
ParamValues ==
    {<<>>, <<"1", "2", "3">>, <<"a", "b", "c">>, <<"x", "a", "b", "c", "x">>,
     <<"x", "x", "x">>}

ParamLists == {<<>>} \cup {<<value>> : value \in ParamValues}

FormMethods == {"GET", "POST"}

Regexes == {"abc", "^\\d+$"}

QueryRequests ==
    [Method : FormMethods, Query : ParamLists, PostForm : ParamLists]

(* url.Values.Get: the first value of the name, "" when there is none *)
Get(values) == IF values = <<>> THEN <<>> ELSE values[1]

(* r.ParseForm(): r.Form holds the values of a POST form body followed by  *)
(* the values of the query string; the body of a GET is not parsed         *)
ParseForm(r) ==
    (IF r.Method = "POST" THEN r.PostForm ELSE <<>>) \o r.Query

IsDigit(c) == c \in {"0", "1", "2", "3", "4", "5", "6", "7", "8", "9"}

(* regexp.MustCompile(regex).MatchString(value) for the two expressions *)
MatchString(regex, value) ==
    CASE regex = "abc" ->
           \E k \in 1..(Len(value) - 2) :
              SubSeq(value, k, k + 2) = <<"a", "b", "c">>
      [] regex = "^\\d+$" ->
           Len(value) > 0 /\ \A k \in 1..Len(value) : IsDigit(value[k])

(* queryParameterMatchesValidation(key, regex)(in): the error, "" for nil *)
queryParameterMatchesValidation(regex, r) ==
    IF Get(r.Query) = <<>> THEN "query parameter was missing"
    ELSE IF ~MatchString(regex, Get(ParseForm(r)))
    THEN "query parameter did not match regex"
    ELSE ""

(* the validator of QueryParameterMatches(name, regex) applied to r *)
QueryParameterMatches(regex, r) ==
    /\ last' = [NoLast EXCEPT
                  !.op = "QueryParameterMatches", !.req = <<regex, r>>,
                  !.result = <<queryParameterMatchesValidation(regex, r)>>]
    /\ UNCHANGED <<every, expectations, defaults, finisheCalled, serverClosed,
                   served, errorfCalls, everyFailPairs, specHits, timesCalled,
                   written, inflight, verdict>>

NextQuery ==
    \E regex \in Regexes, r \in QueryRequests : QueryParameterMatches(regex, r)

SpecQuery == Init /\ [][NextQuery]_vars

----------------------------------------------------------------------------
(* C32: QueryParameterMatches looks at the query string only *)

QueryMatched == last.op = "QueryParameterMatches"

(* C32: QueryParameterMatches(name, regex) passes exactly when the query   *)
(* string of the request URL has a non-empty value for name and that       *)
(* value matches regex, whatever form parameters the request body          *)
(* carries.                                                                *)
C32_QueryOnly ==
    QueryMatched =>
       (last.result[1] = ""
          <=> /\ Get(last.req[2].Query) # <<>>
              /\ MatchString(last.req[1], Get(last.req[2].Query)))

(* C32 holds of the requests whose body is not a form that ParseForm       *)
(* reads                                                                   *)
C32_QueryOnlyWithoutForm ==
    (QueryMatched
     /\ (last.req[2].Method = "GET" \/ last.req[2].PostForm = <<>>)) =>
       (last.result[1] = ""
          <=> /\ Get(last.req[2].Query) # <<>>
              /\ MatchString(last.req[1], Get(last.req[2].Query)))

(* a POST whose query value matches and whose form value of the same name  *)
(* does not is rejected                                                    *)
C32_FormValueDecides ==
    /\ QueryMatched
    /\ last.req[2].Method = "POST"
    /\ MatchString(last.req[1], Get(last.req[2].Query))
    /\ last.req[2].PostForm # <<>>
    /\ last.result[1] = "query parameter did not match regex"

----------------------------------------------------------------------------
(* C31: Shutdown() terminates *)

(* Shutdown() holds the handler lock and waits in Close() for a request    *)
(* that waits for the handler lock                                         *)
ShutdownStuck ==
    /\ inflight.teardown = "wait"
    /\ inflight.mutex = Teardown
    /\ \E p \in Procs : Proc(p).pc = "lock"

(* C31: Shutdown() called after AssertExpectations() always terminates,    *)
(* under any interleaving with requests in flight: no state is reachable   *)
(* in which Shutdown, holding the handler lock, waits for a request that   *)
(* itself waits for the handler lock.                                      *)
C31_ShutdownTerminates ==
    /\ []~ShutdownStuck
    /\ (inflight.teardown = "lock") ~> (inflight.teardown = "done")

(* with no request waiting for the lock when Close() starts to wait,       *)
(* Shutdown() returns                                                      *)
C31_TerminatesWithoutWaiter ==
    (inflight.teardown = "wait" /\ ~ShutdownStuck)
       ~> (inflight.teardown = "done")

====
